---- MODULE Spec2Model ----
(***************************************************************************)
(* The conversation session engine of the chat web part: the React         *)
(* component Chat (state, effects, handlers), the local adapter            *)
(* (ChatStorage.ts, localStorage) and the remote adapter                   *)
(* (ChatStorageSharePoint.ts, one file per chat in a document library).    *)
(*                                                                         *)
(* One action is one handler or one continuation of an async function,     *)
(* followed by the render it causes and the effects that render runs       *)
(* (React runs them before anything else can happen).                      *)
(*                                                                         *)
(* Texts are sequences of characters; a prose literal that the code only   *)
(* concatenates or searches for is one element.  Ids produced by           *)
(* generateId() are positive numbers, 0 is null.  Timestamps are ranks:    *)
(* only their order is ever used (the sort by updatedAt).                  *)
(***************************************************************************)
EXTENDS Integers, Sequences, FiniteSets, TLC

\* ---------------------------------------------------------------- bounds
MaxMsgs == 4
MaxChats == 2
MaxProjects == 2
MaxPending == 2
\* the reads of one response deliver at most MaxArrived tokens
MaxArrived == 6

MaxPendingProjectOps == 1
\* where projects are added while a save of the project list is outstanding: the
\* number of projects and of project-list saves in flight
MaxProjectsAdded == 3
MaxConcurrentAdds == 2
\* files are added to fewer than MaxAttached attachments
MaxAttached == 2
\* the current-user lookups are counted up to MaxLookups
MaxLookups == 3

\* ------------------------------------------------------- program constants
TitleMaxLen == 50
MAX_FILES_PER_MESSAGE == 10
MAX_IMAGE_SIZE_MB == 4
MAX_FILE_SIZE_MB == 10
MAX_TOTAL_TEXT_CHARS == 80000

Null == 0
\* the id of the current user, as the site returns it
USER_ID == 1

NEW_CHAT == <<"N", "e", "w", " ", "c", "h", "a", "t">>
NO_RESPONSE == <<"N", "o", " ", "r", "e", "s", "p", "o", "n", "s", "e", ".">>
ERROR_PREFIX == <<"E", "r", "r", "o", "r", ":", " ">>
SENT_IMAGES == <<"(Sent images)">>
SENT_FILES == <<"(Sent files)">>
TITLE_IMAGE == <<"I", "m", "a", "g", "e">>
TITLE_FILES == <<"F", "i", "l", "e", "s">>
NO_CONTENT == <<"(No content)">>
ATTACHED_FILES == "Attached files:"
NOT_EXTRACTED == "content not extracted"
MODEL_FOR_SIMPLE == "gpt-4o-mini"
MODEL_FOR_COMPLEX == "gpt-4o"

\* ------------------------------------------------------------ the inputs
\* The files a user can pick, as onFileChange leaves them in the attachment list.
ImageFile ==
  [name |-> "a.png", kind |-> "image", data |-> <<"data:a">>, extractionError |-> FALSE]
TextFile ==
  [name |-> "b.txt", kind |-> "text", data |-> <<"t">>, extractionError |-> FALSE]
\* What the user can have typed and attached when Send is pressed: a short text with
\* an image and a text file, and blanks only.
Inputs == {[text |-> <<"h", "i">>, files |-> <<ImageFile, TextFile>>],
           [text |-> <<" ">>, files |-> <<>>]}
\* a file whose text is not read
OtherFile ==
  [name |-> "c.zip", kind |-> "other", data |-> <<>>, extractionError |-> FALSE]
\* A text with every choice of attachments: none, an image, a text file, a file
\* whose text is not read, and their combinations.
Compositions ==
  {[text |-> <<"h", "i">>, files |-> f] :
     f \in {<<>>, <<ImageFile>>, <<TextFile>>, <<OtherFile>>, <<ImageFile, TextFile>>,
            <<ImageFile, OtherFile>>, <<TextFile, OtherFile>>,
            <<ImageFile, TextFile, OtherFile>>}}
\* The response stream, in tokens: the prefix of a data line, its payload, the end
\* of the line.  A payload is a complete JSON event ("{x}" carries the delta x, "{}"
\* carries none), a broken one ("{x") or the end marker.
DATA == "data: "
NL == "\n"
DONE == "[DONE]"
\* What one read of the stream can return: here one event with a delta and the end
\* marker.
Deltas == {<<DATA, "{x}", NL, DATA, DONE, NL>>}
\* Reads that cut the stream anywhere: one token, one event, two events.
Values ==
  {<<tok>> : tok \in {DATA, "{x}", "{y}", "{x", "{}", DONE, NL}}
    \cup {<<DATA, "{x}", NL>>, <<DATA, "{x}", NL, DATA, "{y}", NL>>, <<NL, DATA>>}
\* Responses longer than MaxArrived tokens: events separated by empty lines, with a
\* broken event between two complete ones; an empty payload, two events on one
\* line and an event without a delta.
Streams ==
  {<<DATA, "{x}", NL, NL, DATA, "{x", NL, NL, DATA, "{y}", NL, NL, DATA, DONE, NL, NL>>,
   <<DATA, NL, DATA, "{y}", NL, DATA, "{x}", "{y}", NL, DATA, "{}", NL, DATA, "{x}", NL>>}
\* The error messages a failed request carries.
ErrMsgs == {"Request failed (500)"}
\* The HTTP call of a load that fails: the listing of the library, the read of the
\* project file, the reads of the chat files.
LoadFailures == {"list", "readProjects", "readChats"}
ValidKey == <<"s", "k">>
\* props.apiKey: none, blanks only, a key
ApiKeys == {<<>>, <<" ">>, ValidKey}
\* What the user can answer to the rename prompt.
ChatTitles == {<<>>, <<"r">>}
ProjectNames == {"New project"}

\* the files of the file input: the kind of the file, its size in bytes, the
\* text its extraction gives and whether the extraction (or the read of an
\* image) throws
File(name, type, size, chars, throws) ==
  [name |-> name, type |-> type, size |-> size,
   text |-> [i \in 1..chars |-> "x"], throws |-> throws]

\* the batches the user picks
Batches ==
  {<<File("long.txt", "text", 90000, MAX_TOTAL_TEXT_CHARS - 10, FALSE),
     File("c.pdf", "pdf", 2000, 20, FALSE),
     File("d.docx", "docx", 2000, 5, FALSE)>>,
   <<File("full.txt", "text", 90000, MAX_TOTAL_TEXT_CHARS, FALSE),
     File("e.xlsx", "xlsx", 2000, 5, FALSE)>>,
   <<File("a.png", "image", 1000, 0, FALSE),
     File("big.png", "image", MAX_IMAGE_SIZE_MB * 1024 * 1024 + 1, 0, FALSE),
     File("bad.pdf", "pdf", 2000, 0, TRUE),
     File("f.zip", "other", 2000, 0, FALSE)>>,
   <<File("big.pdf", "pdf", MAX_FILE_SIZE_MB * 1024 * 1024 + 1, 5, FALSE)>>,
   [i \in 1..(MAX_FILES_PER_MESSAGE + 1) |-> File("a.png", "image", 1000, 0, FALSE)]}

\* the texts the user types: the two examples of the hint, a keyword in capitals
\* between blanks, texts of 400 and 401 characters, 399 characters between two
\* blanks, and 399 characters followed by U+0130
Repeat(ch, n) == [i \in 1..n |-> ch]

Texts ==
  {<<>>,
   <<"W", "h", "a", "t", " ", "i", "s", " ", "t", "h", "e", " ", "c", "a", "p",
    "i", "t", "a", "l", " ", "o", "f", " ", "F", "r", "a", "n", "c", "e", "?">>,
   <<"W", "r", "i", "t", "e", " ", "a", " ", "f", "u", "n", "c", "t", "i", "o",
    "n", " ", "t", "h", "a", "t", " ", "s", "o", "r", "t", "s">>,
   <<" ", " ">> \o <<"A", "N", "A", "L", "Y", "Z", "E">> \o <<" ">>,
   Repeat("a", 400),
   Repeat("a", 401),
   <<" ">> \o Repeat("a", 399) \o <<" ">>,
   Repeat("a", 399) \o <<"U+0130">>}

\* ------------------------------------------------------- sequence helpers
\* F(v), with v evaluated once
With(v, F(_)) == CHOOSE y \in {F(x) : x \in {v}} : TRUE

Min(a, b) == IF a < b THEN a ELSE b
Max(a, b) == IF a > b THEN a ELSE b

SetMax(S) == IF S = {} THEN 0 ELSE CHOOSE x \in S : \A y \in S : y <= x

Range(s) == {s[i] : i \in 1..Len(s)}

\* Array.prototype.slice(0, n) for n >= 0
Slice(s, n) == SubSeq(s, 1, Min(n, Len(s)))

\* Array.prototype.slice(0, -n) for n > 0
DropLast(s, n) == SubSeq(s, 1, Max(Len(s) - n, 0))

IsBlank(ch) == ch = " "

RECURSIVE TrimLeft(_)
TrimLeft(s) == IF s # <<>> /\ IsBlank(Head(s)) THEN TrimLeft(Tail(s)) ELSE s

RECURSIVE TrimRight(_)
TrimRight(s) ==
  IF s # <<>> /\ IsBlank(s[Len(s)]) THEN TrimRight(SubSeq(s, 1, Len(s) - 1)) ELSE s

\* String.prototype.trim
Trim(s) == TrimRight(TrimLeft(s))

IsPrefix(p, s) == Len(p) <= Len(s) /\ SubSeq(s, 1, Len(p)) = p

\* Array.prototype.findIndex, 1-based; 0 when there is none
FindIndex(s, P(_)) ==
  IF \E i \in 1..Len(s) : P(s[i])
    THEN CHOOSE i \in 1..Len(s) : P(s[i]) /\ \A j \in 1..(i - 1) : ~P(s[j])
    ELSE 0

\* the index of the last element that satisfies P; 0 when there is none
FindLastIndex(s, P(_)) ==
  IF \E i \in 1..Len(s) : P(s[i])
    THEN CHOOSE i \in 1..Len(s) : P(s[i]) /\ \A j \in (i + 1)..Len(s) : ~P(s[j])
    ELSE 0

\* Array.prototype.map
MapSeq(s, F(_)) == With(s, LAMBDA v : [i \in 1..Len(v) |-> With(v[i], F)])

\* Array.prototype.join of texts with a separator
RECURSIVE Join(_, _)
Join(parts, sep) ==
  IF parts = <<>> THEN <<>>
  ELSE IF Len(parts) = 1 THEN parts[1]
  ELSE parts[1] \o sep \o Join(Tail(parts), sep)

\* Array.prototype.sort by updatedAt descending; the sort is stable
RECURSIVE InsertByUpdated(_, _)
InsertByUpdated(sorted, c) ==
  IF sorted = <<>> THEN <<c>>
  ELSE IF Head(sorted).updatedAt >= c.updatedAt
    THEN <<Head(sorted)>> \o InsertByUpdated(Tail(sorted), c)
    ELSE <<c>> \o sorted

RECURSIVE SortByUpdatedDesc(_)
SortByUpdatedDesc(s) ==
  IF s = <<>> THEN <<>>
  ELSE InsertByUpdated(SortByUpdatedDesc(SubSeq(s, 1, Len(s) - 1)), s[Len(s)])

\* ------------------------------------------------------------- the state
VARIABLES
  apiKey,                \* props.apiKey
  useSharePoint,         \* the remote adapter is selected (a library is configured)
  messages,              \* the in-memory message list of the conversation shown
  input,                 \* the text box
  attachments,           \* the pending attachments
  loading,               \* a turn is in flight
  error,                 \* the error banner, "null" when there is none
  projects,              \* in-memory project list
  currentProjectId,
  allChats,              \* in-memory copy of every chat (remote adapter)
  chats,                 \* the chats listed in the sidebar
  currentChatId,
  storageLoading,
  prevLoadingForPersist, \* the ref of the persist effect
  abortRef,              \* the AbortController of the send in flight (its placeholder id), or Null
  lsProjects,            \* localStorage: chat2etc_projects
  lsChats,               \* localStorage: chat2etc_chats
  lsCurrentProject,      \* localStorage: chat2etc_currentProject
  lsCurrentChat,         \* localStorage: chat2etc_currentChat
  libProjects,           \* the library: the user's project file
  libChats,              \* the library: the chat files, in the order they were created
  pending,               \* remote calls in flight, each with the continuation it will run
  turn,                  \* the sendMessage call in flight: stage, placeholder, fullContent
  cachedUserId,          \* the module variable of the remote adapter, Null until a lookup returns
  userLookups,           \* history: the current-user lookups sent since the page was loaded
  deletedChats,          \* history: the ids of the chats whose delete has completed
  lastEvent,             \* history: the action taken last
  lastWrites,            \* history: the chat writes that action issued
  lastRequest            \* history: the request body the last send built

vars == <<apiKey, useSharePoint, messages, input, attachments, loading, error, projects,
          currentProjectId, allChats, chats, currentChatId, storageLoading,
          prevLoadingForPersist, abortRef, lsProjects, lsChats, lsCurrentProject,
          lsCurrentChat, libProjects, libChats, pending, turn, cachedUserId,
          userLookups, deletedChats, lastEvent, lastWrites, lastRequest>>

\* The state as one value; dirtyAllChats: setAllChats was called since the last render
\* (a new array, so the effects that depend on allChats run again).
Cur ==
  [apiKey |-> apiKey, useSharePoint |-> useSharePoint, messages |-> messages,
   input |-> input, attachments |-> attachments, loading |-> loading, error |-> error,
   projects |-> projects, currentProjectId |-> currentProjectId, allChats |-> allChats,
   chats |-> chats, currentChatId |-> currentChatId, storageLoading |-> storageLoading,
   prevLoadingForPersist |-> prevLoadingForPersist, abortRef |-> abortRef,
   lsProjects |-> lsProjects, lsChats |-> lsChats, lsCurrentProject |-> lsCurrentProject,
   lsCurrentChat |-> lsCurrentChat, libProjects |-> libProjects, libChats |-> libChats,
   pending |-> pending, turn |-> turn, cachedUserId |-> cachedUserId,
   userLookups |-> userLookups, deletedChats |-> deletedChats, lastEvent |-> "other",
   lastWrites |-> <<>>,
   lastRequest |-> <<>>, dirtyAllChats |-> FALSE]

IdleTurn ==
  [stage |-> "idle", regenerate |-> FALSE, chatId |-> Null, placeholderId |-> Null,
   fullContent |-> <<>>, buffer |-> <<>>, arrived |-> <<>>]

NoChat == [id |-> Null, projectId |-> Null, title |-> <<>>, messages |-> <<>>, updatedAt |-> 0]

\* A remote call in flight.  a, b, c and ids are what its continuation captured.
Op(op, cb, chat, projs, list, a, b, c) ==
  [op |-> op, cb |-> cb, chat |-> chat, projects |-> projs, chats |-> list,
   a |-> a, b |-> b, c |-> c]

\* ------------------------------------------------------------ timestamps
Stamps(s) ==
  {c.updatedAt : c \in Range(s.lsChats) \cup Range(s.libChats) \cup Range(s.allChats)
                         \cup Range(s.chats)}
    \cup {s.pending[i].chat.updatedAt : i \in 1..Len(s.pending)}
    \cup UNION {{c.updatedAt : c \in Range(s.pending[i].chats)} : i \in 1..Len(s.pending)}

\* new Date().toISOString(): later than every timestamp there is
Now(s) == 1 + SetMax(Stamps(s))

RankIn(T, t) == IF t = 0 THEN 0 ELSE Cardinality({u \in T : u <= t /\ u > 0})

RankChat(T, c) == [c EXCEPT !.updatedAt = RankIn(T, @)]

RankChats(T, list) == [i \in 1..Len(list) |-> RankChat(T, list[i])]

\* The same state with every timestamp replaced by its rank.
RankedBy(T, s) ==
  [s EXCEPT !.lsChats = RankChats(T, @), !.libChats = RankChats(T, @),
            !.allChats = RankChats(T, @), !.chats = RankChats(T, @),
            !.pending = [i \in 1..Len(@) |->
                          [@[i] EXCEPT !.chat = RankChat(T, @),
                                       !.chats = RankChats(T, @)]]]

Ranked(s) == With(s, LAMBDA v : With(Stamps(v), LAMBDA T : RankedBy(T, v)))

\* The next state is s.
Commit(s) ==
     /\ apiKey' = s.apiKey
     /\ useSharePoint' = s.useSharePoint
     /\ messages' = s.messages
     /\ input' = s.input
     /\ attachments' = s.attachments
     /\ loading' = s.loading
     /\ error' = s.error
     /\ projects' = s.projects
     /\ currentProjectId' = s.currentProjectId
     /\ allChats' = s.allChats
     /\ chats' = s.chats
     /\ currentChatId' = s.currentChatId
     /\ storageLoading' = s.storageLoading
     /\ prevLoadingForPersist' = s.prevLoadingForPersist
     /\ abortRef' = s.abortRef
     /\ lsProjects' = s.lsProjects
     /\ lsChats' = s.lsChats
     /\ lsCurrentProject' = s.lsCurrentProject
     /\ lsCurrentChat' = s.lsCurrentChat
     /\ libProjects' = s.libProjects
     /\ libChats' = s.libChats
     /\ pending' = s.pending
     /\ turn' = s.turn
     /\ cachedUserId' = s.cachedUserId
     /\ userLookups' = s.userLookups
     /\ deletedChats' = s.deletedChats
     /\ lastEvent' = s.lastEvent
     /\ lastWrites' = s.lastWrites
     /\ lastRequest' = s.lastRequest

\* --------------------------------------------------------------- fresh ids
\* generateId(): an id that nothing holds.
ChatIdsOf(list) == {c.id : c \in Range(list)}

UsedChatIds(s) ==
  ChatIdsOf(s.lsChats) \cup ChatIdsOf(s.libChats) \cup ChatIdsOf(s.allChats)
    \cup ChatIdsOf(s.chats) \cup {s.currentChatId, s.lsCurrentChat}
    \cup {s.pending[i].chat.id : i \in 1..Len(s.pending)}
    \cup {s.pending[i].a : i \in {j \in 1..Len(s.pending) : s.pending[j].op = "deleteChat"}}
    \cup {s.pending[i].b : i \in {j \in 1..Len(s.pending) : s.pending[j].op = "deleteChat"}}
    \cup {s.pending[i].c : i \in 1..Len(s.pending)}
    \cup UNION {ChatIdsOf(s.pending[i].chats) : i \in 1..Len(s.pending)}

MsgIdsOf(list) == UNION {{m.id : m \in Range(c.messages)} : c \in Range(list)}

UsedMsgIds(s) ==
  {m.id : m \in Range(s.messages)} \cup MsgIdsOf(s.lsChats) \cup MsgIdsOf(s.libChats)
    \cup MsgIdsOf(s.allChats) \cup MsgIdsOf(s.chats) \cup {s.turn.placeholderId, s.abortRef}
    \cup {m.id : m \in UNION {Range(s.pending[i].chat.messages) : i \in 1..Len(s.pending)}}
    \cup UNION {MsgIdsOf(s.pending[i].chats) : i \in 1..Len(s.pending)}

UsedProjectIds(s) ==
  {p.id : p \in Range(s.projects) \cup Range(s.lsProjects) \cup Range(s.libProjects)}
    \cup {c.projectId : c \in Range(s.lsChats) \cup Range(s.libChats) \cup Range(s.allChats)
                              \cup Range(s.chats)}
    \cup {s.currentProjectId, s.lsCurrentProject}
    \cup {s.pending[i].chat.projectId : i \in 1..Len(s.pending)}
    \cup {s.pending[i].a : i \in {j \in 1..Len(s.pending) :
                                    s.pending[j].op \in {"deleteProject", "saveProjects"}}}
    \cup UNION {{p.id : p \in Range(s.pending[i].projects)} : i \in 1..Len(s.pending)}
    \cup UNION {{c.projectId : c \in Range(s.pending[i].chats)} : i \in 1..Len(s.pending)}

Fresh(used) == CHOOSE n \in 1..(Cardinality(used) + 1) : n \notin used

\* ---------------------------------------------------- the local adapter
\* messageToStored / storedToMessage: the fields are copied one by one
\* a conversion that loses the extracted file texts
messageToStoredMutant(m) ==
  [id |-> m.id, role |-> m.role, content |-> m.content,
   imageDataUrls |-> m.imageDataUrls, fileTexts |-> <<>>,
   otherFileNames |-> m.otherFileNames]

messageToStored(m) ==
  [id |-> m.id, role |-> m.role, content |-> m.content,
   imageDataUrls |-> m.imageDataUrls, fileTexts |-> m.fileTexts,
   otherFileNames |-> m.otherFileNames]

storedToMessage(m) ==
  [id |-> m.id, role |-> m.role, content |-> m.content,
   imageDataUrls |-> m.imageDataUrls, fileTexts |-> m.fileTexts,
   otherFileNames |-> m.otherFileNames]

\* What a write carries, for the history: the ids of the chats written.
Written(list) == [i \in 1..Len(list) |-> list[i].id]

\* JSON.stringify of a stored message: its properties in order, a property whose
\* value is undefined left out (imageDataUrls, fileTexts and otherFileNames are
\* undefined, here <<>>, when the message has none: lines 869-871)
JsonStringifyMessage(m) ==
  <<[key |-> "id", value |-> m.id], [key |-> "role", value |-> m.role],
    [key |-> "content", value |-> m.content]>>
    \o (IF m.imageDataUrls # <<>>
          THEN <<[key |-> "imageDataUrls", value |-> m.imageDataUrls]>> ELSE <<>>)
    \o (IF m.fileTexts # <<>>
          THEN <<[key |-> "fileTexts", value |-> m.fileTexts]>> ELSE <<>>)
    \o (IF m.otherFileNames # <<>>
          THEN <<[key |-> "otherFileNames", value |-> m.otherFileNames]>> ELSE <<>>)

\* the property of a parsed object: undefined when the text does not hold it
JsonProperty(json, key) ==
  LET i == FindIndex(json, LAMBDA p : p.key = key)
  IN IF i > 0 THEN json[i].value ELSE <<>>

\* JSON.parse of the text of a stored message
JsonParseMessage(json) ==
  [id |-> JsonProperty(json, "id"), role |-> JsonProperty(json, "role"),
   content |-> JsonProperty(json, "content"),
   imageDataUrls |-> JsonProperty(json, "imageDataUrls"),
   fileTexts |-> JsonProperty(json, "fileTexts"),
   otherFileNames |-> JsonProperty(json, "otherFileNames")]

\* JSON.stringify of a chat (lines 71 and 116 of the two adapters)
JsonStringifyChat(c) ==
  [id |-> c.id, projectId |-> c.projectId, title |-> c.title, updatedAt |-> c.updatedAt,
   messages |-> MapSeq(c.messages, JsonStringifyMessage)]

\* JSON.parse of the text of a chat (lines 62 and 104)
JsonParseChat(json) ==
  [id |-> json.id, projectId |-> json.projectId, title |-> json.title,
   updatedAt |-> json.updatedAt, messages |-> MapSeq(json.messages, JsonParseMessage)]

\* The stores keep a chat as JSON.parse reads the text that was written.
getAllChats(s) == s.lsChats

saveAllChats(s, all, cause) ==
  With(all, LAMBDA list :
    [s EXCEPT !.lsChats = MapSeq(list, LAMBDA c : JsonParseChat(JsonStringifyChat(c))),
              !.lastWrites = Append(@, [op |-> "saveAllChats", cause |-> cause,
                                        chats |-> Written(list)])])

getChatsForProject(s, projectId) ==
  SortByUpdatedDesc(SelectSeq(getAllChats(s), LAMBDA c : c.projectId = projectId))

saveProjects(s, list) == [s EXCEPT !.lsProjects = list]

persistProjectId(s, id) == [s EXCEPT !.lsCurrentProject = id]

persistChatId(s, id) == [s EXCEPT !.lsCurrentChat = id]

\* --------------------------------------------------- the remote adapter
\* getCurrentUserId (lines 19-29), called n times before any of the lookups has
\* returned: with no id cached each call sends a lookup.  The lookups are counted
\* up to MaxLookups.
getCurrentUserId(s, n) ==
  IF s.cachedUserId # Null THEN s
  ELSE [s EXCEPT !.userLookups = Min(@ + n, MaxLookups)]

\* a lookup has returned: cachedUserId = json.Id (line 27)
UserIdCached(s) == [s EXCEPT !.cachedUserId = USER_ID]

\* saveChatToLibrary(...).then(cb): the call is issued, its continuation waits.
saveChatToLibrary(s, chat, cb, cid) ==
  [s EXCEPT !.pending = Append(@, Op("saveChat", cb, chat, <<>>, <<>>, cid, Null, Null)),
            !.lastWrites = Append(@, [op |-> "saveChatToLibrary", cause |-> cb,
                                      chats |-> Written(<<chat>>)])]

saveProjectsToLibrary(s, list, cb, list2, a) ==
  [getCurrentUserId(s, 1)
     EXCEPT !.pending = Append(@, Op("saveProjects", cb, NoChat, list, list2, a, Null, Null))]

\* The file of a chat is written (created, or overwritten in place).
PutChatFile(files, chat) ==
  LET i == FindIndex(files, LAMBDA f : f.id = chat.id)
      file == JsonParseChat(JsonStringifyChat(chat))
  IN IF i > 0 THEN [files EXCEPT ![i] = file] ELSE Append(files, file)

\* ------------------------------------------------------------ selection
\* setCurrentProjectId (lines 461-466)
setCurrentProjectId(s, id) ==
  [s EXCEPT !.currentProjectId = id, !.lsCurrentProject = id,
            !.currentChatId = Null, !.lsCurrentChat = Null]

\* setCurrentChatId (lines 467-470)
setCurrentChatId(s, id) == [s EXCEPT !.currentChatId = id, !.lsCurrentChat = id]

\* -------------------------------------------------------------- effects
\* An effect reads the state of the render it belongs to (r) and the storage as it
\* is (s), and changes s.

\* lines 515-525
ChatsEffect(r, s) ==
  IF r.currentProjectId = Null THEN [s EXCEPT !.chats = <<>>]
  ELSE IF r.useSharePoint
    THEN [s EXCEPT !.chats = SelectSeq(r.allChats,
                                       LAMBDA c : c.projectId = r.currentProjectId)]
    ELSE [s EXCEPT !.chats = getChatsForProject(s, r.currentProjectId)]

\* lines 527-541
MessagesEffect(r, s) ==
  IF r.currentChatId = Null THEN [s EXCEPT !.messages = <<>>]
  ELSE LET all == IF r.useSharePoint THEN r.allChats ELSE getAllChats(s)
           i == FindIndex(all, LAMBDA c : c.id = r.currentChatId)
       IN IF i > 0 /\ Len(all[i].messages) > 0
            THEN [s EXCEPT !.messages = MapSeq(all[i].messages, storedToMessage)]
            ELSE s

UpsertedMutant(all, updated) == Append(all, updated)

\* if (idx >= 0) all[idx] = updated; else all.push(updated); (lines 571, 582-583)
Upserted(all, updated) ==
  LET idx == FindIndex(all, LAMBDA c : c.id = updated.id)
  IN IF idx > 0 THEN [all EXCEPT ![idx] = updated] ELSE Append(all, updated)

\* persistCurrentChat(msgs), lines 543-587, as the render r defined it
persistCurrentChat(r, s, msgs) ==
  LET cid == r.currentChatId
      pid == r.currentProjectId
      now == Now(s)
  IN IF cid = Null \/ pid = Null THEN s
     ELSE IF r.useSharePoint
       THEN LET i == FindIndex(r.allChats, LAMBDA c : c.id = cid)
                titleToUse == IF i > 0 THEN r.allChats[i].title ELSE NEW_CHAT
                updated == [id |-> cid, projectId |-> pid, title |-> titleToUse,
                            messages |-> MapSeq(msgs, messageToStored), updatedAt |-> now]
            IN saveChatToLibrary(s, updated, "persist", cid)
       ELSE With(getAllChats(s), LAMBDA all :
              With(LET idx == FindIndex(all, LAMBDA c : c.id = cid)
                       titleToUse == IF idx > 0 THEN all[idx].title ELSE NEW_CHAT
                   IN [id |-> cid, projectId |-> pid, title |-> titleToUse,
                       messages |-> MapSeq(msgs, messageToStored), updatedAt |-> now],
                   LAMBDA updated :
                     With(Upserted(all, updated), LAMBDA next :
                       With(saveAllChats(s, next, "persist"), LAMBDA s1 :
                         [s1 EXCEPT !.chats = getChatsForProject(s1, pid)]))))

\* first.content.slice(0, 50).trim() || 'New chat' (line 594)
TitleFrom(content) ==
  LET t == Trim(Slice(content, TitleMaxLen)) IN IF t = <<>> THEN NEW_CHAT ELSE t

\* the title step of the persist effect, lines 593-612
AssignTitle(r, s) ==
  LET f == FindIndex(r.messages, LAMBDA m : m.role = "user")
      hasTitle == f > 0
      newTitle == IF hasTitle THEN TitleFrom(r.messages[f].content) ELSE <<>>
      now == Now(s)
  IN IF r.useSharePoint /\ hasTitle
       THEN LET i == FindIndex(r.allChats, LAMBDA x : x.id = r.currentChatId)
            IN IF i > 0 /\ r.allChats[i].title = NEW_CHAT
                 THEN saveChatToLibrary(s,
                        [r.allChats[i] EXCEPT !.title = newTitle, !.updatedAt = now,
                           !.messages = MapSeq(r.messages, messageToStored)],
                        "title", r.currentChatId)
                 ELSE s
     ELSE IF ~r.useSharePoint
       THEN With(getAllChats(s), LAMBDA all :
              With(LET i == FindIndex(all, LAMBDA x : x.id = r.currentChatId)
                   IN IF i > 0 /\ all[i].title = NEW_CHAT /\ hasTitle
                        THEN saveAllChats(s, [all EXCEPT ![i].title = newTitle,
                                                         ![i].updatedAt = now], "title")
                        ELSE s,
                   LAMBDA s1 :
                     [s1 EXCEPT !.chats = getChatsForProject(s1, r.currentProjectId)]))
     ELSE s

PersistDueMutant(r) == r.currentChatId # Null /\ r.currentProjectId # Null

\* the condition of the persist effect (line 591): loading went from true to false
PersistDue(r) ==
  r.prevLoadingForPersist /\ ~r.loading /\ r.currentChatId # Null
    /\ r.currentProjectId # Null

\* the persist effect, lines 589-615
PersistEffect(r, s) ==
  [(IF PersistDue(r)
      THEN With(persistCurrentChat(r, s, r.messages), LAMBDA s1 : AssignTitle(r, s1))
      ELSE s) EXCEPT !.prevLoadingForPersist = r.loading]

\* The render after the state became s (it was prev at the last render), and the
\* effects of that render, in the order the component declares them.
RenderOf(prev, r) ==
  With(IF r.currentProjectId # prev.currentProjectId \/ r.dirtyAllChats
         THEN ChatsEffect(r, r) ELSE r,
       LAMBDA s1 :
         With(IF r.currentChatId # prev.currentChatId \/ r.dirtyAllChats
                THEN MessagesEffect(r, s1) ELSE s1,
              LAMBDA s2 : [PersistEffect(r, s2) EXCEPT !.dirtyAllChats = FALSE]))

Render(prev, s) == With(prev, LAMBDA p : With(s, LAMBDA r : RenderOf(p, r)))

\* setState outside an event handler: the state s becomes F(s) and React renders.
Rendered(s, F(_)) == With(s, LAMBDA v : RenderOf(v, F(v)))

\* setAllChats(list): a new array
setAllChats(s, list) == [s EXCEPT !.allChats = list, !.dirtyAllChats = TRUE]

\* ------------------------------------------------- request construction
\* buildMessageText, lines 745-759
buildMessageText(userText, fileTexts, otherFileNames) ==
  LET fileBlocks == Join(MapSeq(fileTexts,
                           LAMBDA f : <<"--- ", f.name, " ---\n">> \o f.text), <<"\n\n">>)
      t1 == IF fileTexts # <<>>
              THEN IF userText # <<>>
                     THEN userText \o <<"\n\n", ATTACHED_FILES, "\n\n">> \o fileBlocks
                     ELSE <<ATTACHED_FILES, "\n\n">> \o fileBlocks
              ELSE userText
      t2 == IF otherFileNames # <<>>
              THEN (IF t1 # <<>> THEN t1 \o <<"\n\n">> ELSE <<>>)
                     \o <<"(Also attached; ", NOT_EXTRACTED, ": ">>
                     \o Join(MapSeq(otherFileNames, LAMBDA n : <<n>>), <<", ">>) \o <<")">>
              ELSE t1
  IN IF t2 = <<>> THEN NO_CONTENT ELSE t2

\* One message of the request: its content is the text alone, or the text part
\* followed by one image part per image.
ApiMessage(role, text, images) == [role |-> role, text |-> text, images |-> images]

SYSTEM_FILES == <<"system: attached file content is included">>
SYSTEM_UNSUPPORTED == <<"system: text extraction failed">>
SYSTEM_IMAGES == <<"system: images are included">>

RequestHistoryMutant(msgs, forRegenerate) == msgs

\* const list = forRegenerate ? messages.slice(0, -1) : messages (line 769)
RequestHistory(msgs, forRegenerate) == IF forRegenerate THEN DropLast(msgs, 1) ELSE msgs

\* buildOpenAIMessages, lines 761-826; msgs is the message list of the render
buildOpenAIMessages(msgs, userText, imageDataUrls, fileTexts, otherFileNames, forRegenerate) ==
  LET list == RequestHistory(msgs, forRegenerate)
      history == MapSeq(list, LAMBDA m :
                   IF m.role = "assistant" THEN ApiMessage("assistant", m.content, <<>>)
                   ELSE ApiMessage("user",
                          buildMessageText(m.content, m.fileTexts, m.otherFileNames),
                          m.imageDataUrls))
      api == IF forRegenerate THEN history
             ELSE Append(history,
                    ApiMessage("user", buildMessageText(userText, fileTexts, otherFileNames),
                               imageDataUrls))
      users == SelectSeq(api, LAMBDA m : m.role = "user")
      hasAttachedFileContent == \E m \in Range(users) : ATTACHED_FILES \in Range(m.text)
      hasUnsupportedAttachments ==
        ~hasAttachedFileContent /\ \E m \in Range(users) : NOT_EXTRACTED \in Range(m.text)
      hasImages == \E m \in Range(users) : m.images # <<>>
      a1 == IF hasAttachedFileContent
              THEN <<ApiMessage("system", SYSTEM_FILES, <<>>)>> \o api ELSE api
      a2 == IF hasUnsupportedAttachments
              THEN <<ApiMessage("system", SYSTEM_UNSUPPORTED, <<>>)>> \o a1 ELSE a1
  IN IF hasImages THEN <<ApiMessage("system", SYSTEM_IMAGES, <<>>)>> \o a2 ELSE a2

\* ------------------------------------------------------------ sendMessage
NewMessage(id, role, content, images, fileTexts, others) ==
  [id |-> id, role |-> role, content |-> content, imageDataUrls |-> images,
   fileTexts |-> fileTexts, otherFileNames |-> others]

\* the title of the chat a first message creates (line 876)
FirstTitle(userText, imageDataUrls) ==
  LET t == Slice(Trim(userText), TitleMaxLen)
  IN IF t # <<>> THEN t ELSE IF imageDataUrls # <<>> THEN TITLE_IMAGE ELSE TITLE_FILES

\* The chat a first message creates when none is selected (lines 873-898).
CreateChatOnSend(s, userText, imageDataUrls) ==
  IF s.currentChatId = Null /\ s.currentProjectId # Null
    THEN LET newId == Fresh(UsedChatIds(s))
             newChatRecord == [id |-> newId, projectId |-> s.currentProjectId,
                               title |-> FirstTitle(userText, imageDataUrls),
                               messages |-> <<>>, updatedAt |-> Now(s)]
             s1 == persistChatId([s EXCEPT !.currentChatId = newId,
                                           !.deletedChats = @ \ {newId}], newId)
         IN IF s.useSharePoint
              THEN saveChatToLibrary(s1, newChatRecord, "create", newId)
              ELSE LET s2 == saveAllChats(s1, Append(getAllChats(s1), newChatRecord), "create")
                   IN [s2 EXCEPT !.chats = getChatsForProject(s2, s.currentProjectId)]
    ELSE s

KeyMissingMutant(key) == key = <<>>

\* const key = apiKey?.trim(); if (!key) (lines 830-831)
KeyMissing(key) == Trim(key) = <<>>

RegenerateSliceMutant(prev) == DropLast(prev, 1)

\* setMessages((prev) => prev.slice(0, -2)) (line 852)
RegenerateSlice(prev) == DropLast(prev, 2)

NewAbortControllerMutant(placeholderId) == Null

\* abortRef.current = new AbortController() (line 910): the controller of a send is
\* named by the placeholder of the send
NewAbortController(placeholderId) == placeholderId

\* sendMessage up to its first await (lines 828-924): what the handler does before
\* React renders.
sendMessage(s, regenerate) ==
  IF KeyMissing(s.apiKey)
    THEN [s EXCEPT !.error = "OpenAI API key is not set", !.lastEvent = "nokey"]
  ELSE
    LET lu == FindLastIndex(s.messages, LAMBDA m : m.role = "user")
        useLast == regenerate /\ Len(s.messages) >= 2 /\ lu > 0
        userText == IF useLast THEN s.messages[lu].content ELSE Trim(s.input)
        imageDataUrls ==
          IF useLast THEN s.messages[lu].imageDataUrls
          ELSE MapSeq(SelectSeq(s.attachments, LAMBDA a : a.kind = "image"),
                      LAMBDA a : a.data[1])
        fileTexts ==
          IF useLast THEN s.messages[lu].fileTexts
          ELSE MapSeq(SelectSeq(s.attachments, LAMBDA a : a.kind = "text"),
                      LAMBDA a : [name |-> a.name, text |-> a.data])
        otherFileNames ==
          IF useLast THEN s.messages[lu].otherFileNames
          ELSE MapSeq(SelectSeq(s.attachments, LAMBDA a : a.kind = "other"),
                      LAMBDA a : a.name)
        s1 == IF useLast THEN [s EXCEPT !.messages = RegenerateSlice(@)] ELSE s
        hasContent == userText # <<>> \/ imageDataUrls # <<>> \/ fileTexts # <<>>
                        \/ otherFileNames # <<>>
        userId == Fresh(UsedMsgIds(s))
        userMessage ==
          NewMessage(userId, "user",
                     IF userText # <<>> THEN userText
                     ELSE IF imageDataUrls # <<>> THEN SENT_IMAGES ELSE SENT_FILES,
                     imageDataUrls, fileTexts, otherFileNames)
        s2 == IF regenerate THEN [s1 EXCEPT !.error = "null"]
              ELSE LET c == CreateChatOnSend(
                              [s1 EXCEPT !.error = "null", !.input = <<>>,
                                         !.attachments = <<>>], userText, imageDataUrls)
                   IN [c EXCEPT !.messages = Append(@, userMessage)]
        placeholderId == Fresh(UsedMsgIds(s) \cup {userId})
        assistantPlaceholder == NewMessage(placeholderId, "assistant", <<>>, <<>>, <<>>, <<>>)
    IN IF ~hasContent /\ ~regenerate THEN s1
       ELSE IF s.loading THEN s1
       ELSE [s2 EXCEPT !.messages = Append(@, assistantPlaceholder),
                       !.loading = TRUE,
                       !.abortRef = NewAbortController(placeholderId),
                       !.lastEvent = IF regenerate THEN "regenerate" ELSE "send",
                       !.turn = [stage |-> "stream", regenerate |-> regenerate,
                                 chatId |-> s2.currentChatId,
                                 placeholderId |-> placeholderId,
                                 fullContent |-> <<>>, buffer |-> <<>>,
                                 arrived |-> <<>>],
                       !.lastRequest = buildOpenAIMessages(s.messages, userText,
                                         imageDataUrls, fileTexts, otherFileNames, regenerate)]

\* setMessages(prev => prev.map(m => m.id === id ? {...m, content} : m))
SetContent(msgs, id, content) ==
  [i \in 1..Len(msgs) |->
     IF msgs[i].id = id THEN [msgs[i] EXCEPT !.content = content] ELSE msgs[i]]

\* ------------------------------------------------------- reading the stream
\* buffer.split('\n') (line 948)
RECURSIVE Split(_)
Split(text) ==
  LET i == FindIndex(text, LAMBDA tok : tok = NL)
  IN IF i = 0 THEN <<text>>
     ELSE <<SubSeq(text, 1, i - 1)>> \o Split(SubSeq(text, i + 1, Len(text)))

LeftoverMutant(lines) == <<>>

\* lines.pop() || '' (line 949)
Leftover(lines) == lines[Len(lines)]

JsonParseEventMutant(data) ==
  [throws |-> FALSE,
   delta |-> IF data # <<>> /\ data[1] \in {"{x}", "{x"} THEN <<"x">>
             ELSE IF data # <<>> /\ data[1] = "{y}" THEN <<"y">> ELSE <<>>]

\* JSON.parse(data) and parsed.choices?.[0]?.delta?.content (lines 955-956): the
\* delta of a complete event, nothing when the event has none, a throw otherwise.
JsonParseEvent(data) ==
  IF Len(data) = 1 /\ data[1] \in {"{x}", "{y}", "{}"}
    THEN [throws |-> FALSE,
          delta |-> IF data[1] = "{x}" THEN <<"x">>
                    ELSE IF data[1] = "{y}" THEN <<"y">> ELSE <<>>]
    ELSE [throws |-> TRUE, delta |-> <<>>]

\* the body of the for loop, lines 951-966
ReadLine(s, line) ==
  IF line # <<>> /\ Head(line) = DATA
    THEN LET data == Tail(line)
             parsed == JsonParseEvent(data)
         IN IF data = <<DONE>> THEN s
            ELSE IF parsed.throws \/ parsed.delta = <<>> THEN s
            ELSE LET fullContent == s.turn.fullContent \o parsed.delta
                 IN Rendered([s EXCEPT !.turn.fullContent = fullContent],
                             LAMBDA v : [v EXCEPT !.messages =
                                           SetContent(@, v.turn.placeholderId, fullContent)])
    ELSE s

\* for (const line of lines), lines 950-967
RECURSIVE ReadLines(_, _, _)
ReadLines(s, lines, n) ==
  IF n = 0 THEN s ELSE ReadLine(ReadLines(s, lines, n - 1), lines[n])

ReadMutant(s, value) ==
  LET lines == Split(value)
  IN [ReadLines(s, lines, Len(lines) - 1)
        EXCEPT !.turn.buffer = Leftover(lines), !.turn.arrived = @ \o value]

\* one turn of the while loop after reader.read() returned value, lines 945-967
Read(s, value) ==
  LET lines == Split(s.turn.buffer \o value)
  IN [ReadLines(s, lines, Len(lines) - 1)
        EXCEPT !.turn.buffer = Leftover(lines), !.turn.arrived = @ \o value]

FinallyMutant(s) == [s EXCEPT !.abortRef = Null, !.turn = IdleTurn]

\* the finally of sendMessage (lines 983-986)
Finally(s) ==
  [Rendered(s, LAMBDA v : [v EXCEPT !.loading = FALSE])
     EXCEPT !.abortRef = Null, !.turn = IdleTurn]

\* newChat, lines 641-675.  abort() rejects the await of the send in flight: its
\* catch returns on AbortError and its finally runs before any other event.
newChat(s) ==
  LET s0 == [s EXCEPT !.abortRef = Null, !.turn = IdleTurn,
                      !.input = <<>>, !.attachments = <<>>, !.error = "null",
                      !.loading = FALSE,
                      !.deletedChats = @ \ {Fresh(UsedChatIds(s))},
                      !.lastEvent = IF s.abortRef # Null THEN "abort" ELSE "other"]
      newId == Fresh(UsedChatIds(s))
      newChatRecord == [id |-> newId, projectId |-> s.currentProjectId, title |-> NEW_CHAT,
                        messages |-> <<>>, updatedAt |-> Now(s)]
  IN IF s.currentProjectId = Null THEN s0
     ELSE IF s.useSharePoint
       THEN LET s1 == saveChatToLibrary(s0, newChatRecord, "newChat", newId)
            IN [setCurrentChatId(s1, newId) EXCEPT !.messages = <<>>]
       ELSE LET s1 == saveAllChats(s0, Append(getAllChats(s0), newChatRecord), "newChat")
                s2 == [s1 EXCEPT !.chats = getChatsForProject(s1, s.currentProjectId)]
            IN [setCurrentChatId(s2, newId) EXCEPT !.messages = <<>>]

\* handleSelectChat, lines 1027-1032
handleSelectChat(s, chat) == setCurrentChatId(s, chat.id)

\* handleAddProject, lines 1010-1025
handleAddProject(s, name) ==
  LET newProject == [id |-> Fresh(UsedProjectIds(s)), name |-> name]
      next == Append(s.projects, newProject)
  IN IF s.useSharePoint
       THEN saveProjectsToLibrary(s, next, "add", <<>>, newProject.id)
       ELSE setCurrentProjectId([saveProjects(s, next) EXCEPT !.projects = next],
                                newProject.id)

\* handleRenameChat, lines 1109-1129; title is what the prompt returned
handleRenameChat(s, c, title) ==
  LET t == IF Trim(title) = <<>> THEN NEW_CHAT ELSE Trim(title)
      updated == [c EXCEPT !.title = t, !.updatedAt = Now(s)]
  IN IF title = (IF c.title = <<>> THEN NEW_CHAT ELSE c.title) THEN s
     ELSE IF s.useSharePoint THEN saveChatToLibrary(s, updated, "rename", c.id)
     ELSE LET all == getAllChats(s)
              idx == FindIndex(all, LAMBDA x : x.id = c.id)
          IN IF idx > 0
               THEN LET s1 == saveAllChats(s, [all EXCEPT ![idx] = updated], "rename")
                        s2 == setAllChats(s1, getAllChats(s1))
                    IN [s2 EXCEPT !.chats = getChatsForProject(s2, s.currentProjectId)]
               ELSE s

\* the chat of the project the selection moves to (lines 1077 and 1098)
FirstInProject(list, projectId) ==
  LET i == FindIndex(list, LAMBDA c : c.projectId = projectId)
  IN IF i > 0 THEN list[i].id ELSE Null

\* handleDeleteProject, lines 1060-1107
handleDeleteProject(s, p) ==
  LET projectChats == SelectSeq(s.chats, LAMBDA c : c.projectId = p.id)
      remaining == SelectSeq(s.projects, LAMBDA x : x.id # p.id)
  IN IF s.useSharePoint
       THEN LET nextAll == SelectSeq(s.allChats, LAMBDA c : c.projectId # p.id)
                firstInNew == IF remaining # <<>>
                                THEN FirstInProject(nextAll, remaining[1].id) ELSE Null
            IN [getCurrentUserId(s, Len(projectChats)) EXCEPT !.pending =
                  Append(@, Op("deleteProject", "deleteProject", NoChat, remaining,
                               projectChats, p.id, s.currentProjectId, firstInNew))]
       ELSE LET all == SelectSeq(getAllChats(s), LAMBDA c : c.projectId # p.id)
                s1 == saveAllChats(saveProjects(s, remaining), all, "deleteProject")
                s2 == [setAllChats(s1, all) EXCEPT
                         !.projects = remaining,
                         !.chats = SelectSeq(@, LAMBDA c : c.projectId # p.id)]
            IN IF s.currentProjectId # p.id THEN s2
               ELSE IF remaining # <<>>
                 THEN setCurrentChatId(setCurrentProjectId(s2, remaining[1].id),
                                       FirstInProject(all, remaining[1].id))
                 ELSE [setCurrentChatId(setCurrentProjectId(s2, Null), Null)
                         EXCEPT !.messages = <<>>]

\* handleDeleteChat, lines 1131-1162 (the confirm answered yes)
handleDeleteChat(s, chat) ==
  IF s.useSharePoint
    THEN LET rest == SelectSeq(s.chats, LAMBDA c : c.id # chat.id)
         IN [getCurrentUserId(s, 1) EXCEPT !.pending =
               Append(@, Op("deleteChat", "deleteChat", NoChat, <<>>, <<>>, chat.id,
                            s.currentChatId, IF rest # <<>> THEN rest[1].id ELSE Null))]
    ELSE LET all == SelectSeq(getAllChats(s), LAMBDA x : x.id # chat.id)
             s1 == setAllChats(saveAllChats(s, all, "delete"), all)
             s2 == [s1 EXCEPT !.chats = getChatsForProject(s1, s.currentProjectId)]
             rest == SelectSeq(all, LAMBDA c : c.projectId = s.currentProjectId)
         IN IF s.currentChatId = chat.id
              THEN LET s3 == [setCurrentChatId(s2, Null) EXCEPT !.messages = <<>>]
                   IN IF rest # <<>> THEN setCurrentChatId(s3, rest[1].id) ELSE s3
              ELSE [s2 EXCEPT !.chats = SelectSeq(@, LAMBDA c : c.id # chat.id)]

\* ----------------------------------------------------------- attachments
\* '\n...[truncated]', the marker a cut text ends with (line 704)
TRUNCATED ==
  <<"\n", ".", ".", ".", "[", "t", "r", "u", "n", "c", "a", "t", "e", "d", "]">>

\* isPdfFile, isDocxFile, isXlsxFile, isLikelyTextFile: the files text is read from
ExtractsText(type) == type \in {"pdf", "docx", "xlsx", "text"}

FailedMutant(file) ==
  [name |-> file.name, kind |-> "other", data |-> <<>>, extractionError |-> FALSE]

\* list.push({ file, extractionError: msg }) (lines 729-732)
Failed(file) ==
  [name |-> file.name, kind |-> "other", data |-> <<>>, extractionError |-> TRUE]

\* the loop of onFileChange from file i on (lines 689-732): list is the attachments
\* made so far, totalChars the length of the text they carry
RECURSIVE ReadFiles(_, _, _, _)
ReadFiles(files, i, list, totalChars) ==
  IF ~(i <= Len(files) /\ Len(list) < MAX_FILES_PER_MESSAGE) THEN list
  ELSE LET file == files[i]
           sizeLimit == IF file.type = "image" THEN MAX_IMAGE_SIZE_MB * 1024 * 1024
                                               ELSE MAX_FILE_SIZE_MB * 1024 * 1024
           failed == Failed(file)
           truncated ==
             IF Len(file.text) > MAX_TOTAL_TEXT_CHARS - totalChars
               THEN Slice(file.text, MAX_TOTAL_TEXT_CHARS - totalChars) \o TRUNCATED
               ELSE file.text
       IN CASE file.size > sizeLimit -> ReadFiles(files, i + 1, list, totalChars)
            [] file.size <= sizeLimit /\ file.type = "image" ->
                 ReadFiles(files, i + 1,
                           Append(list, IF file.throws THEN failed
                                          ELSE [name |-> file.name, kind |-> "image",
                                                data |-> <<"data:a">>,
                                                extractionError |-> FALSE]),
                           totalChars)
            [] file.size <= sizeLimit /\ ExtractsText(file.type)
                 /\ totalChars < MAX_TOTAL_TEXT_CHARS ->
                 IF file.throws
                   THEN ReadFiles(files, i + 1, Append(list, failed), totalChars)
                   ELSE ReadFiles(files, i + 1,
                                  Append(list, [name |-> file.name, kind |-> "text",
                                                data |-> truncated,
                                                extractionError |-> FALSE]),
                                  totalChars + Len(truncated))
            [] OTHER ->
                 ReadFiles(files, i + 1,
                           Append(list, [name |-> file.name, kind |-> "other",
                                         data |-> <<>>, extractionError |-> FALSE]),
                           totalChars)

CappedMutant(list) == list

\* .slice(0, MAX_FILES_PER_MESSAGE) (line 736)
Capped(list) == Slice(list, MAX_FILES_PER_MESSAGE)

\* onFileChange, lines 681-743
onFileChange(s, files) ==
  IF files = <<>> THEN s
  ELSE LET list == ReadFiles(files, 1, <<>>, 0)
       IN IF list # <<>>
            THEN [s EXCEPT !.attachments = Capped(@ \o list),
                           !.error = "null"]
            ELSE [s EXCEPT !.error = "No files were added"]

\* removeAttachment, lines 677-679
removeAttachment(s, index) ==
  [s EXCEPT !.attachments = SubSeq(@, 1, index - 1) \o SubSeq(@, index + 1, Len(@))]

\* ------------------------------------------------------------ the model hint
\* the characters String.prototype.toLowerCase changes, of those the inputs use:
\* the capital letters, and U+0130 (capital I with dot above), which becomes the
\* two code units i, U+0307
UPPER == <<"A", "B", "C", "D", "E", "F", "G", "H", "I", "J", "K", "L", "M", "N", "O",
           "P", "Q", "R", "S", "T", "U", "V", "W", "X", "Y", "Z">>

LOWER == <<"a", "b", "c", "d", "e", "f", "g", "h", "i", "j", "k", "l", "m", "n", "o",
           "p", "q", "r", "s", "t", "u", "v", "w", "x", "y", "z">>

LowerCaseOf(ch) ==
  IF ch = "U+0130" THEN <<"i", "U+0307">>
  ELSE IF \E k \in 1..Len(UPPER) : UPPER[k] = ch
         THEN <<LOWER[CHOOSE k \in 1..Len(UPPER) : UPPER[k] = ch]>>
         ELSE <<ch>>

\* String.prototype.toLowerCase
RECURSIVE ToLowerCase(_)
ToLowerCase(s) ==
  IF s = <<>> THEN <<>>
  ELSE IF Len(s) = 1 THEN LowerCaseOf(s[1])
  ELSE ToLowerCase(SubSeq(s, 1, Len(s) \div 2))
         \o ToLowerCase(SubSeq(s, Len(s) \div 2 + 1, Len(s)))

\* String.prototype.indexOf(kw) >= 0
Includes(t, kw) ==
  \E i \in 0..(Len(t) - Len(kw)) : SubSeq(t, i + 1, i + Len(kw)) = kw

\* complexKeywords, lines 318-322
complexKeywords ==
  <<<<"s", "t", "e", "p", " ", "b", "y", " ", "s", "t", "e", "p">>,
    <<"e", "x", "p", "l", "a", "i", "n", " ", "i", "n", " ", "d", "e", "t", "a", "i", "l">>,
    <<"c", "o", "m", "p", "a", "r", "e", " ", "a", "n", "d", " ", "c", "o", "n", "t", "r", "a", "s", "t">>,
    <<"a", "n", "a", "l", "y", "z", "e">>,
    <<"w", "r", "i", "t", "e", " ", "c", "o", "d", "e">>,
    <<"i", "m", "p", "l", "e", "m", "e", "n", "t">>,
    <<"d", "e", "b", "u", "g">>,
    <<"f", "u", "n", "c", "t", "i", "o", "n", " ", "t", "h", "a", "t">>,
    <<"e", "s", "s", "a", "y">>,
    <<"o", "u", "t", "l", "i", "n", "e">>,
    <<"c", "o", "m", "p", "a", "r", "e">>,
    <<"c", "o", "n", "t", "r", "a", "s", "t">>,
    <<"p", "r", "o", "s", " ", "a", "n", "d", " ", "c", "o", "n", "s">>,
    <<"c", "r", "i", "t", "i", "c", "a", "l", "l", "y">>,
    <<"r", "e", "a", "s", "o", "n", "i", "n", "g">>,
    <<"p", "r", "o", "o", "f">>,
    <<"d", "e", "r", "i", "v", "e">>,
    <<"a", "l", "g", "o", "r", "i", "t", "h", "m">>>>

\* suggestModelFromContent, lines 314-327
suggestModelFromContent(text, hasAttachments) ==
  LET t == ToLowerCase(Trim(text))
  IN IF Len(t) > 400 THEN "complex"
     ELSE IF hasAttachments THEN "complex"
     ELSE IF \E k \in 1..Len(complexKeywords) : Includes(t, complexKeywords[k])
            THEN "complex" ELSE "simple"

\* getSuggestedModelValue(input, attachments.length > 0), lines 329-331 and 1006
suggestedModel(s) ==
  IF suggestModelFromContent(s.input, Len(s.attachments) > 0) = "complex"
    THEN MODEL_FOR_COMPLEX ELSE MODEL_FOR_SIMPLE

\* ------------------------------------------------- continuations (remote)
RemoveAt(q, i) == SubSeq(q, 1, i - 1) \o SubSeq(q, i + 1, Len(q))

\* the continuation of a saveChatToLibrary that succeeded
SaveChatThen(s, op) ==
  IF op.cb = "persist"
    THEN LET i == FindIndex(s.allChats, LAMBDA c : c.id = op.a)      \* lines 560-568
         IN setAllChats(s, IF i > 0 THEN [s.allChats EXCEPT ![i] = op.chat]
                           ELSE Append(s.allChats, op.chat))
  ELSE IF op.cb \in {"title", "rename"}                   \* lines 600 and 1117
    THEN setAllChats(s, MapSeq(s.allChats, LAMBDA x : IF x.id = op.a THEN op.chat ELSE x))
  ELSE setAllChats(s, Append(s.allChats, op.chat))        \* lines 659 and 890

\* the continuation of a saveChatToLibrary that failed
SaveChatCatch(s, op) ==
  IF op.cb \in {"title", "create"} THEN s                 \* .catch(() => {})
  ELSE [s EXCEPT !.error = "Failed to save chat"]

\* setCurrentProjectId called outside an event handler: React renders after each
\* setState (ReactDom.render, ChatWebPart.ts line 19).
setCurrentProjectIdUnbatched(s, id) ==
  persistChatId(
    Rendered(Rendered(s, LAMBDA v : [v EXCEPT !.currentProjectId = id]),
             LAMBDA v : [persistProjectId(v, id) EXCEPT !.currentChatId = Null]),
    Null)

setCurrentChatIdUnbatched(s, id) ==
  persistChatId(Rendered(s, LAMBDA v : [v EXCEPT !.currentChatId = id]), id)

\* the load effect after its reads (lines 481-497), the project list not empty
LoadThen(s, proj, chatsList) ==
  Rendered(Rendered(Rendered(s, LAMBDA v : [v EXCEPT !.projects = proj]),
                    LAMBDA v : setAllChats(v, chatsList)),
           LAMBDA v : [v EXCEPT !.storageLoading = FALSE])

\* the load effect after the default project was saved (lines 485-497)
LoadDefaultThen(s, op) ==
  Rendered(
    Rendered(
      Rendered(
        setCurrentProjectIdUnbatched(
          Rendered(s, LAMBDA v : [v EXCEPT !.projects = op.projects]), op.a),
        LAMBDA v : [v EXCEPT !.currentProjectId = op.a]),
      LAMBDA v : setAllChats(v, op.chats)),
    LAMBDA v : [v EXCEPT !.storageLoading = FALSE])

\* handleAddProject after its save (lines 1017-1018)
AddProjectThen(s, op) ==
  setCurrentProjectIdUnbatched(
    Rendered(s, LAMBDA v : [v EXCEPT !.projects = op.projects]), op.a)

\* handleDeleteProject after its save (lines 1068-1085); op.b is the
\* currentProjectId, op.projects the remaining projects and op.c the first chat of
\* the first remaining project, all as of the render the handler was called in
DeleteProjectThen(s, op) ==
  With(Rendered(
         Rendered(
           Rendered(s, LAMBDA v : [v EXCEPT !.projects =
                                     SelectSeq(@, LAMBDA x : x.id # op.a)]),
           LAMBDA v : setAllChats(v, SelectSeq(v.allChats,
                                               LAMBDA c : c.projectId # op.a))),
         LAMBDA v : [v EXCEPT !.chats = SelectSeq(@, LAMBDA c : c.projectId # op.a)]),
       LAMBDA s3 :
         IF op.b # op.a THEN s3
         ELSE IF op.projects # <<>>
           THEN setCurrentChatIdUnbatched(
                  setCurrentProjectIdUnbatched(s3, op.projects[1].id), op.c)
           ELSE Rendered(
                  setCurrentChatIdUnbatched(setCurrentProjectIdUnbatched(s3, Null), Null),
                  LAMBDA v : [v EXCEPT !.messages = <<>>]))

\* handleDeleteChat after its delete (lines 1137-1146); op.a is the chat, op.b the
\* currentChatId and op.c the first of the other chats of the sidebar, both as of
\* the render the handler was called in
DeleteChatThen(s, op) ==
  With(Rendered(Rendered(s, LAMBDA v : setAllChats(v, SelectSeq(v.allChats,
                                                       LAMBDA c : c.id # op.a))),
                LAMBDA v : [v EXCEPT !.chats = SelectSeq(@, LAMBDA c : c.id # op.a)]),
       LAMBDA s2 :
         IF op.b # op.a THEN s2
         ELSE With(Rendered(setCurrentChatIdUnbatched(s2, Null),
                            LAMBDA v : [v EXCEPT !.messages = <<>>]),
                   LAMBDA s4 : IF op.c # Null THEN setCurrentChatIdUnbatched(s4, op.c)
                                              ELSE s4))

\* deleteChatFromLibrary (lines 129-140) returns: the file is deleted when the
\* listing names it; a listing that failed names no file (line 48)
DeleteChatFile(files, id, listed) ==
  IF listed THEN SelectSeq(files, LAMBDA f : f.id # id) ELSE files

\* getChatsFromLibrary, lines 96-111
getChatsFromLibrary(s) ==
  SortByUpdatedDesc(SelectSeq(s.libChats, LAMBDA c : c.id # Null /\ c.projectId # Null))

\* getProjectsFromLibrary, lines 64-78
getProjectsFromLibrary(s) == s.libProjects

\* deleteChatFromLibrary for each of the chats, lines 129-140
DeleteChatFiles(files, list) ==
  SelectSeq(files, LAMBDA f : f.id \notin ChatIdsOf(list))

\* getProjectsFromLibrary and getChatsFromLibrary when an HTTP call of theirs
\* fails (lines 43-62): a listing that fails is an empty listing (line 48), a
\* file whose read fails is an empty file (line 60), and an empty project file
\* is an empty project list (line 71), an empty chat file a file that is skipped
\* (line 103)
getProjectsFromLibraryFailing(s, failure) ==
  IF failure \in {"list", "readProjects"} THEN <<>> ELSE getProjectsFromLibrary(s)

getChatsFromLibraryFailing(s, failure) ==
  IF failure \in {"list", "readChats"} THEN <<>> ELSE getChatsFromLibrary(s)

\* ------------------------------------------------------------- mounting
\* The component as React.useState initialises it (lines 428-447) over the stores
\* of s, then the effects of the first render.
Mounted(s) ==
  LET m0 == [s EXCEPT !.messages = <<>>, !.input = <<>>, !.attachments = <<>>,
                      !.loading = FALSE, !.error = "null",
                      !.projects = IF s.useSharePoint THEN <<>> ELSE s.lsProjects,
                      !.currentProjectId = s.lsCurrentProject,
                      !.allChats = <<>>, !.chats = <<>>,
                      !.currentChatId = s.lsCurrentChat,
                      !.storageLoading = s.useSharePoint,
                      !.prevLoadingForPersist = FALSE, !.abortRef = Null,
                      !.pending = <<>>, !.turn = IdleTurn, !.dirtyAllChats = FALSE,
                      !.cachedUserId = Null, !.userLookups = 0]
      \* lines 472-500: the load starts; getProjectsFromLibrary and
      \* getChatsFromLibrary are both called before either has awaited anything
      m1 == IF m0.useSharePoint
              THEN [getCurrentUserId(m0, 2)
                      EXCEPT !.pending = <<Op("load", "load", NoChat, <<>>, <<>>,
                                              Null, Null, Null)>>]
              ELSE m0
      \* lines 502-513: the default project of the local adapter
      defaultProject == [id |-> Fresh(UsedProjectIds(m0)), name |-> "Default"]
      m2 == IF ~m0.useSharePoint /\ m0.lsProjects = <<>>
              THEN [setCurrentProjectId(saveProjects(m1, <<defaultProject>>),
                                        defaultProject.id)
                      EXCEPT !.projects = <<defaultProject>>]
              ELSE m1
      m3 == PersistEffect(m0, MessagesEffect(m0, ChatsEffect(m0, m2)))
  IN Render(m0, m3)

\* ------------------------------------------------------------------ Init
\* A first visit: nothing is stored yet.
FirstVisit(mode, key) ==
  [apiKey |-> key, useSharePoint |-> mode, messages |-> <<>>, input |-> <<>>,
   attachments |-> <<>>, loading |-> FALSE, error |-> "null", projects |-> <<>>,
   currentProjectId |-> Null, allChats |-> <<>>, chats |-> <<>>, currentChatId |-> Null,
   storageLoading |-> FALSE, prevLoadingForPersist |-> FALSE, abortRef |-> Null,
   lsProjects |-> <<>>, lsChats |-> <<>>, lsCurrentProject |-> Null,
   lsCurrentChat |-> Null, libProjects |-> <<>>, libChats |-> <<>>, pending |-> <<>>,
   turn |-> IdleTurn, cachedUserId |-> Null, userLookups |-> 0, deletedChats |-> {},
   lastEvent |-> "other",
   lastWrites |-> <<>>, lastRequest |-> <<>>, dirtyAllChats |-> FALSE]

InitAs(s) ==
  /\ apiKey = s.apiKey
  /\ useSharePoint = s.useSharePoint
  /\ messages = s.messages
  /\ input = s.input
  /\ attachments = s.attachments
  /\ loading = s.loading
  /\ error = s.error
  /\ projects = s.projects
  /\ currentProjectId = s.currentProjectId
  /\ allChats = s.allChats
  /\ chats = s.chats
  /\ currentChatId = s.currentChatId
  /\ storageLoading = s.storageLoading
  /\ prevLoadingForPersist = s.prevLoadingForPersist
  /\ abortRef = s.abortRef
  /\ lsProjects = s.lsProjects
  /\ lsChats = s.lsChats
  /\ lsCurrentProject = s.lsCurrentProject
  /\ lsCurrentChat = s.lsCurrentChat
  /\ libProjects = s.libProjects
  /\ libChats = s.libChats
  /\ pending = s.pending
  /\ turn = s.turn
  /\ cachedUserId = s.cachedUserId
  /\ userLookups = s.userLookups
  /\ deletedChats = s.deletedChats
  /\ lastEvent = "other"
  /\ lastWrites = <<>>
  /\ lastRequest = <<>>

Init == \E mode \in BOOLEAN, key \in ApiKeys : InitAs(Mounted(FirstVisit(mode, key)))

\* --------------------------------------------------------------- actions
ChatCount(s) == Cardinality(UsedChatIds(s) \ {Null})

ProjectCount(s) == Cardinality(UsedProjectIds(s) \ {Null})

MsgCount(s) == Cardinality(UsedMsgIds(s) \ {Null})

\* The remote calls in flight stay within the bounds.
PendingWithin(s, k) ==
  /\ Cardinality({i \in 1..Len(s.pending) : s.pending[i].op = "saveChat"}) <= MaxPending
  /\ Cardinality({i \in 1..Len(s.pending) : s.pending[i].op # "saveChat"}) <= k

PendingOk(s) == PendingWithin(s, MaxPendingProjectOps)

\* An action whose handler runs inside a React event handler: one render after it.
HandleWithin(s, k) == \E n \in {Ranked(Render(Cur, s))} : PendingWithin(n, k) /\ Commit(n)

Handle(s) == HandleWithin(s, MaxPendingProjectOps)

\* An action whose continuation rendered as it went.
Continue(s) == \E n \in {Ranked(s)} : PendingOk(n) /\ Commit(n)

\* The user types a text, attaches files and presses Send or Enter (lines 991-996,
\* 1451, 1459); the text box and the file input are disabled while loading.
SendMessage(inp) ==
  /\ ~loading
  /\ MsgCount(Cur) + 2 <= MaxMsgs
  /\ (currentChatId = Null /\ currentProjectId # Null) => ChatCount(Cur) < MaxChats
  /\ Handle(sendMessage([Cur EXCEPT !.input = inp.text, !.attachments = inp.files], FALSE))

\* Regenerate response (lines 1002, 1466-1468)
Regenerate ==
  /\ ~loading
  /\ MsgCount(Cur) + 1 <= MaxMsgs
  /\ Len(messages) >= 2
  /\ messages[Len(messages) - 1].role = "user"
  /\ Handle(sendMessage(Cur, TRUE))

\* sendMessage is called while loading is true.  The controls that call it are
\* disabled or not rendered then (lines 1454, 1460, 1466), so this is a call the
\* guard of line 857 is there for.
SendWhileLoading(regenerate) ==
  /\ loading
  /\ Handle([sendMessage(Cur, regenerate) EXCEPT !.lastEvent = "invoked"])

\* one read of the stream (lines 944-968)
StreamChunk(value) ==
  /\ turn.stage = "stream"
  /\ \/ Len(turn.arrived) + Len(value) <= MaxArrived
     \/ \E stream \in Streams : IsPrefix(turn.arrived \o value, stream)
  /\ Continue(Read([Cur EXCEPT !.lastEvent = "chunk"], value))

\* the stream is done (lines 946, 970-973, 983-986)
StreamDone ==
  /\ turn.stage = "stream"
  /\ LET fullContent == IF Trim(turn.fullContent) = <<>> THEN NO_RESPONSE
                        ELSE turn.fullContent
         s1 == [Cur EXCEPT !.messages = SetContent(@, turn.placeholderId, fullContent),
                           !.lastEvent = "done"]
     IN Continue(Finally(Render(Cur, s1)))

\* the request or the stream failed (lines 926-936, 974-986)
StreamFail(errMsg) ==
  /\ turn.stage = "stream"
  /\ LET s1 == [Cur EXCEPT !.messages = SetContent(@, turn.placeholderId,
                                                   ERROR_PREFIX \o <<errMsg>>),
                           !.lastEvent = "fail"]
     IN Continue(Finally(Rendered(Render(Cur, s1), LAMBDA v : [v EXCEPT !.error = errMsg])))

NewChat ==
  /\ currentProjectId # Null => ChatCount(Cur) < MaxChats
  /\ Handle(newChat(Cur))

HandleSelectChat(i) ==
  /\ i \in 1..Len(chats)
  /\ chats[i].id # currentChatId
  /\ Handle(handleSelectChat(Cur, chats[i]))

\* a project is clicked (line 1195)
SelectProject(i) ==
  /\ i \in 1..Len(projects)
  /\ Handle(setCurrentProjectId(Cur, projects[i].id))

\* the + of the project list (line 1187, disabled while storageLoading), with at
\* most maxProjects projects and at most k project calls in flight
AddProjectWithin(name, maxProjects, k) ==
  /\ ~storageLoading
  /\ ProjectCount(Cur) < maxProjects
  /\ HandleWithin(handleAddProject(Cur, name), k)

HandleAddProject(name) == AddProjectWithin(name, MaxProjects, MaxPendingProjectOps)

\* the menu of a listed chat offers the chat as allChats holds it (line 1266)
HandleRenameChat(i, title) ==
  /\ i \in 1..Len(allChats)
  /\ allChats[i].id \in ChatIdsOf(chats)
  /\ Handle(handleRenameChat(Cur, allChats[i], title))

HandleDeleteProject(i) ==
  /\ i \in 1..Len(projects)
  /\ Handle(handleDeleteProject(Cur, projects[i]))

\* the user picks files in the file input (lines 1430-1437, disabled while
\* loading); the attachments are set when the last file is read
OnFileChange(files) ==
  /\ ~loading
  /\ Len(attachments) < MaxAttached
  /\ Handle([onFileChange(Cur, files) EXCEPT !.lastEvent = "files"])

\* the x of an attachment chip (line 1404)
RemoveAttachment(i) ==
  /\ i \in 1..Len(attachments)
  /\ Handle(removeAttachment(Cur, i))

\* the user types in the text box (lines 1447-1452, disabled while loading)
OnInputChange(text) ==
  /\ ~loading
  /\ Handle([Cur EXCEPT !.input = text])

\* the API key is edited in the property pane: the web part renders the component
\* with the new props (ChatWebPart.ts lines 10-20)
OnPropertyChange(key) ==
  /\ key # apiKey
  /\ Handle([Cur EXCEPT !.apiKey = key])

\* Delete in the menu of a chat of the sidebar
HandleDeleteChat(i) ==
  /\ i \in 1..Len(chats)
  /\ LET deleted == [op |-> "deleteChat", cause |-> "delete", chats |-> <<chats[i].id>>]
     IN Handle([handleDeleteChat(Cur, chats[i])
                  EXCEPT !.lastEvent = IF useSharePoint THEN "other" ELSE "deleted",
                         !.deletedChats = IF useSharePoint THEN @ ELSE @ \cup {chats[i].id},
                         !.lastWrites = IF useSharePoint THEN @ ELSE Append(@, deleted)])

\* deleteChatFromLibrary resolves; listed is whether its listing succeeded
DeleteChatOk(i, listed) ==
  /\ i \in 1..Len(pending)
  /\ pending[i].op = "deleteChat"
  /\ LET op == pending[i]
         s1 == UserIdCached([Cur EXCEPT !.pending = RemoveAt(@, i),
                                        !.libChats = DeleteChatFile(@, op.a, listed),
                                        !.deletedChats = IF listed THEN @ \cup {op.a} ELSE @,
                                        !.lastEvent = "deleted",
                                        !.lastWrites =
                                          <<[op |-> "deleteChat", cause |-> "delete",
                                             chats |-> <<op.a>>]>>])
     IN Continue(DeleteChatThen(s1, op))

\* the DELETE of the file fails (lines 136-139, 1147)
DeleteChatFail(i) ==
  /\ i \in 1..Len(pending)
  /\ pending[i].op = "deleteChat"
  /\ pending[i].a \in ChatIdsOf(libChats)
  /\ LET s1 == UserIdCached([Cur EXCEPT !.pending = RemoveAt(@, i)])
     IN Continue(Render(Cur, [s1 EXCEPT !.error = "Failed to delete chat"]))

\* ---------------------------------------- remote calls come back, in any order
SaveChatOk(i) ==
  /\ i \in 1..Len(pending)
  /\ pending[i].op = "saveChat"
  /\ LET op == pending[i]
         s1 == [Cur EXCEPT !.pending = RemoveAt(@, i),
                           !.libChats = PutChatFile(@, op.chat),
                           !.lastEvent = "saved",
                           !.lastWrites = <<[op |-> "file", cause |-> op.cb,
                                             chats |-> Written(<<op.chat>>),
                                             messages |-> op.chat.messages]>>]
     IN Continue(Render(Cur, SaveChatThen(s1, op)))

SaveChatFail(i) ==
  /\ i \in 1..Len(pending)
  /\ pending[i].op = "saveChat"
  /\ LET op == pending[i]
         s1 == [Cur EXCEPT !.pending = RemoveAt(@, i), !.lastEvent = "savefail",
                           !.lastWrites = <<[op |-> "none", cause |-> op.cb,
                                             chats |-> Written(<<op.chat>>)]>>]
     IN Continue(Render(Cur, SaveChatCatch(s1, op)))

\* the reads of the load effect are back (lines 477-484)
LoadOk(i) ==
  /\ i \in 1..Len(pending)
  /\ pending[i].op = "load"
  /\ LET proj == getProjectsFromLibrary(Cur)
         chatsList == getChatsFromLibrary(Cur)
         s1 == UserIdCached([Cur EXCEPT !.pending = RemoveAt(@, i)])
         defaultProject == [id |-> Fresh(UsedProjectIds(Cur)), name |-> "Default"]
     IN IF proj = <<>>
          THEN Continue(saveProjectsToLibrary(s1, <<defaultProject>>, "loadDefault",
                                              chatsList, defaultProject.id))
          ELSE Continue(LoadThen(s1, proj, chatsList))

\* the load effect threw (lines 493-497)
LoadFail(i) ==
  /\ i \in 1..Len(pending)
  /\ pending[i].op = "load"
  /\ LET s1 == [Cur EXCEPT !.pending = RemoveAt(@, i)]
     IN Continue(Rendered(
                   Render(Cur, [s1 EXCEPT !.error = "Failed to load chats from library"]),
                   LAMBDA v : [v EXCEPT !.storageLoading = FALSE]))

\* the reads of the load effect are back, an HTTP call of theirs having failed:
\* the listing of the library, the read of the project file or the reads of the
\* chat files (a file is read only when the library holds it)
LoadDegraded(i, failure) ==
  /\ i \in 1..Len(pending)
  /\ pending[i].op = "load"
  /\ failure = "readProjects" => libProjects # <<>>
  /\ failure = "readChats" => libChats # <<>>
  /\ LET proj == getProjectsFromLibraryFailing(Cur, failure)
         chatsList == getChatsFromLibraryFailing(Cur, failure)
         s1 == UserIdCached([Cur EXCEPT !.pending = RemoveAt(@, i),
                                        !.lastEvent = IF failure = "list" THEN "listfail"
                                                                          ELSE "readfail"])
         defaultProject == [id |-> Fresh(UsedProjectIds(Cur)), name |-> "Default"]
     IN IF proj = <<>>
          THEN Continue(saveProjectsToLibrary(s1, <<defaultProject>>, "loadDefault",
                                              chatsList, defaultProject.id))
          ELSE Continue(LoadThen(s1, proj, chatsList))

\* the page is loaded again: the component mounts over the stores as they are;
\* the remote calls of the page that is left are abandoned
Reload ==
  /\ Continue(Mounted(Cur))

\* the page is opened in another browser, or after the site data was cleared: the
\* library is as it is and localStorage is empty (lines 434-438 read it)
OtherBrowser ==
  /\ useSharePoint
  /\ Continue(Mounted([Cur EXCEPT !.lsProjects = <<>>, !.lsChats = <<>>,
                                  !.lsCurrentProject = Null, !.lsCurrentChat = Null]))

SaveProjectsOk(i) ==
  /\ i \in 1..Len(pending)
  /\ pending[i].op = "saveProjects"
  /\ LET op == pending[i]
         s1 == UserIdCached([Cur EXCEPT !.pending = RemoveAt(@, i),
                                        !.libProjects = op.projects])
     IN Continue(IF op.cb = "loadDefault" THEN LoadDefaultThen(s1, op)
                 ELSE IF op.cb = "add" THEN AddProjectThen(s1, op)
                 ELSE DeleteProjectThen(s1, op))

SaveProjectsFail(i) ==
  /\ i \in 1..Len(pending)
  /\ pending[i].op = "saveProjects"
  /\ LET op == pending[i]
         s1 == [Cur EXCEPT !.pending = RemoveAt(@, i)]
     IN Continue(IF op.cb = "loadDefault"
                   THEN Rendered(
                          Render(Cur, [s1 EXCEPT !.error = "Failed to save projects"]),
                          LAMBDA v : [v EXCEPT !.storageLoading = FALSE])
                   ELSE Render(Cur, [s1 EXCEPT !.error = "Failed to save projects"]))

\* the chat files of a deleted project are gone; the project list is saved next
\* (lines 1066-1067)
DeleteFilesOk(i) ==
  /\ i \in 1..Len(pending)
  /\ pending[i].op = "deleteProject"
  /\ LET op == pending[i]
         s1 == IF op.chats # <<>> THEN UserIdCached(Cur) ELSE Cur
     IN Continue([getCurrentUserId(s1, 1)
                    EXCEPT !.libChats = DeleteChatFiles(@, op.chats),
                           !.pending = [@ EXCEPT ![i].op = "saveProjects"]])

DeleteFilesFail(i) ==
  /\ i \in 1..Len(pending)
  /\ pending[i].op = "deleteProject"
  /\ LET s1 == [Cur EXCEPT !.pending = RemoveAt(@, i)]
     IN Continue(Render(Cur, [s1 EXCEPT !.error = "Failed to delete project"]))

Next ==
  \/ \E inp \in Inputs \cup Compositions : SendMessage(inp)
  \/ Regenerate
  \/ \E d \in Deltas : StreamChunk(d)
  \/ StreamDone
  \/ \E e \in ErrMsgs : StreamFail(e)
  \/ NewChat
  \/ \E i \in 1..MaxChats : HandleSelectChat(i)
  \/ \E i \in 1..MaxProjects : SelectProject(i)
  \/ \E n \in ProjectNames : HandleAddProject(n)
  \/ \E i \in 1..MaxChats, t \in ChatTitles : HandleRenameChat(i, t)
  \/ \E i \in 1..MaxProjects : HandleDeleteProject(i)
  \/ \E files \in Batches : OnFileChange(files)
  \/ \E i \in 1..MAX_FILES_PER_MESSAGE : RemoveAttachment(i)
  \/ \E text \in Texts : OnInputChange(text)
  \/ \E key \in ApiKeys : OnPropertyChange(key)
  \/ \E regenerate \in BOOLEAN : SendWhileLoading(regenerate)
  \/ \E i \in 1..MaxChats : HandleDeleteChat(i)
  \/ \E i \in 1..(MaxPending + MaxPendingProjectOps), listed \in BOOLEAN :
       DeleteChatOk(i, listed)
  \/ \E i \in 1..(MaxPending + MaxPendingProjectOps) : DeleteChatFail(i)
  \/ Reload
  \/ OtherBrowser
  \/ \E i \in 1..(MaxPending + MaxPendingProjectOps), f \in LoadFailures :
       LoadDegraded(i, f)
  \/ \E i \in 1..(MaxPending + MaxPendingProjectOps) : SaveChatOk(i)
  \/ \E i \in 1..(MaxPending + MaxPendingProjectOps) : SaveChatFail(i)
  \/ \E i \in 1..(MaxPending + MaxPendingProjectOps) : LoadOk(i)
  \/ \E i \in 1..(MaxPending + MaxPendingProjectOps) : LoadFail(i)
  \/ \E i \in 1..(MaxPending + MaxPendingProjectOps) : SaveProjectsOk(i)
  \/ \E i \in 1..(MaxPending + MaxPendingProjectOps) : SaveProjectsFail(i)
  \/ \E i \in 1..(MaxPending + MaxPendingProjectOps) : DeleteFilesOk(i)
  \/ \E i \in 1..(MaxPending + MaxPendingProjectOps) : DeleteFilesFail(i)

Spec == Init /\ [][Next]_vars

\* ------------------------------------------------- the parts that are explored
\* Spec is the whole component.  Each specification below is a part of it (one
\* adapter or both, some of the actions) that is small enough to be explored to
\* the end; every behaviour of a part is a behaviour of Spec.
InitLocal == InitAs(Mounted(FirstVisit(FALSE, ValidKey)))

InitRemote == InitAs(Mounted(FirstVisit(TRUE, ValidKey)))

\* The local adapter: turns, New chat and the selection of a chat.
NextLocal ==
  \/ \E inp \in Inputs : SendMessage(inp)
  \/ Regenerate
  \/ \E d \in Deltas : StreamChunk(d)
  \/ StreamDone
  \/ \E e \in ErrMsgs : StreamFail(e)
  \/ NewChat
  \/ \E i \in 1..MaxChats : HandleSelectChat(i)

SpecLocal == InitLocal /\ [][NextLocal]_vars

InitBoth == InitLocal \/ InitRemote

\* Both adapters: turns and New chat, with the remote calls coming back in any order.
NextTurns ==
  \/ \E inp \in Inputs : SendMessage(inp)
  \/ Regenerate
  \/ \E d \in Deltas : StreamChunk(d)
  \/ StreamDone
  \/ \E e \in ErrMsgs : StreamFail(e)
  \/ NewChat
  \/ \E i \in 1..(MaxPending + MaxPendingProjectOps) : SaveChatOk(i)
  \/ \E i \in 1..(MaxPending + MaxPendingProjectOps) : LoadOk(i)
  \/ \E i \in 1..(MaxPending + MaxPendingProjectOps) : SaveProjectsOk(i)

SpecTurns == InitBoth /\ [][NextTurns]_vars

\* Both adapters: projects and chats are created, selected and deleted; no turn.
NextProjects ==
  \/ NewChat
  \/ \E i \in 1..MaxChats : HandleSelectChat(i)
  \/ \E i \in 1..MaxProjects : SelectProject(i)
  \/ \E n \in ProjectNames : HandleAddProject(n)
  \/ \E i \in 1..MaxProjects : HandleDeleteProject(i)
  \/ \E i \in 1..(MaxPending + MaxPendingProjectOps) : SaveChatOk(i)
  \/ \E i \in 1..(MaxPending + MaxPendingProjectOps) : SaveChatFail(i)
  \/ \E i \in 1..(MaxPending + MaxPendingProjectOps) : LoadOk(i)
  \/ \E i \in 1..(MaxPending + MaxPendingProjectOps) : LoadFail(i)
  \/ \E i \in 1..(MaxPending + MaxPendingProjectOps) : SaveProjectsOk(i)
  \/ \E i \in 1..(MaxPending + MaxPendingProjectOps) : SaveProjectsFail(i)
  \/ \E i \in 1..(MaxPending + MaxPendingProjectOps) : DeleteFilesOk(i)
  \/ \E i \in 1..(MaxPending + MaxPendingProjectOps) : DeleteFilesFail(i)

SpecProjects == InitBoth /\ [][NextProjects]_vars

\* The composer of the local adapter: a text is typed, files are attached and removed.
NextCompose ==
  \/ \E files \in Batches : OnFileChange(files)
  \/ \E i \in 1..MAX_FILES_PER_MESSAGE : RemoveAttachment(i)
  \/ \E text \in Texts : OnInputChange(text)

SpecCompose == InitLocal /\ [][NextCompose]_vars

\* The remote adapter over visits: chats are created and deleted, the page is loaded again,
\* and the calls of a load succeed or fail.
NextVisits ==
  \/ NewChat
  \/ \E i \in 1..MaxChats : HandleDeleteChat(i)
  \/ \E i \in 1..(MaxPending + MaxPendingProjectOps), listed \in BOOLEAN :
       DeleteChatOk(i, listed)
  \/ \E i \in 1..(MaxPending + MaxPendingProjectOps) : DeleteChatFail(i)
  \/ Reload
  \/ \E i \in 1..(MaxPending + MaxPendingProjectOps) : SaveChatOk(i)
  \/ \E i \in 1..(MaxPending + MaxPendingProjectOps) : LoadOk(i)
  \/ \E i \in 1..(MaxPending + MaxPendingProjectOps) : LoadFail(i)
  \/ \E i \in 1..(MaxPending + MaxPendingProjectOps), f \in LoadFailures :
       LoadDegraded(i, f)
  \/ \E i \in 1..(MaxPending + MaxPendingProjectOps) : SaveProjectsOk(i)

SpecVisits == InitRemote /\ [][NextVisits]_vars

\* The remote adapter: turns whose writes succeed or fail.
NextSaves ==
  \/ \E inp \in Inputs : SendMessage(inp)
  \/ StreamDone
  \/ NewChat
  \/ \E i \in 1..(MaxPending + MaxPendingProjectOps) : SaveChatOk(i)
  \/ \E i \in 1..(MaxPending + MaxPendingProjectOps) : SaveChatFail(i)
  \/ \E i \in 1..(MaxPending + MaxPendingProjectOps) : LoadOk(i)
  \/ \E i \in 1..(MaxPending + MaxPendingProjectOps) : SaveProjectsOk(i)
  \/ \E i \in 1..(MaxPending + MaxPendingProjectOps) : SaveProjectsFail(i)

SpecSaves == InitRemote /\ [][NextSaves]_vars

\* The local adapter: turns with every choice of attachments.
NextRequests ==
  \/ \E inp \in Compositions : SendMessage(inp)
  \/ Regenerate
  \/ StreamDone

SpecRequests == InitLocal /\ [][NextRequests]_vars

\* The local adapter, every response completing or failing in the end.
SpecLocalFair ==
  SpecLocal /\ WF_vars(StreamDone \/ \E e \in ErrMsgs : StreamFail(e))

\* Files are attached and removed and what is attached is sent, in the first turn
\* of a conversation.
NextAttach ==
  \/ messages = <<>> /\ \E files \in Batches : OnFileChange(files)
  \/ messages = <<>> /\ \E i \in 1..MAX_FILES_PER_MESSAGE : RemoveAttachment(i)
  \/ messages = <<>> /\ SendMessage([text |-> input, files |-> attachments])
  \/ StreamDone

SpecAttach == InitLocal /\ [][NextAttach]_vars

\* sends with and without an API key; Send and Enter send what is in the text box
\* and the attachment list
NextKeys ==
  \/ \E key \in ApiKeys : OnPropertyChange(key)
  \/ \E inp \in Inputs : OnInputChange(inp.text)
  \/ OnFileChange(<<File("a.png", "image", 1000, 0, FALSE),
                    File("b.txt", "text", 100, 1, FALSE)>>)
  \/ SendMessage([text |-> input, files |-> attachments])
  \/ Regenerate
  \/ StreamDone

SpecKeys == InitLocal /\ [][NextKeys]_vars

\* the reads of the first response of a conversation
NextStream ==
  \/ messages = <<>> /\ SendMessage([text |-> <<"h", "i">>, files |-> <<>>])
  \/ \E v \in Values : StreamChunk(v)
  \/ StreamDone
  \/ \E e \in ErrMsgs : StreamFail(e)

SpecStream == InitLocal /\ [][NextStream]_vars

\* The remote adapter: chats are created, renamed and deleted, the writes and the
\* deletes coming back in any order.
NextDeletes ==
  \/ NewChat
  \/ \E i \in 1..MaxChats, t \in ChatTitles : HandleRenameChat(i, t)
  \/ \E i \in 1..MaxChats : HandleDeleteChat(i)
  \/ \E i \in 1..(MaxPending + MaxPendingProjectOps), listed \in BOOLEAN :
       DeleteChatOk(i, listed)
  \/ \E i \in 1..(MaxPending + MaxPendingProjectOps) : DeleteChatFail(i)
  \/ \E i \in 1..(MaxPending + MaxPendingProjectOps) : SaveChatOk(i)
  \/ \E i \in 1..(MaxPending + MaxPendingProjectOps) : LoadOk(i)
  \/ \E i \in 1..(MaxPending + MaxPendingProjectOps) : SaveProjectsOk(i)

SpecDeletes == InitRemote /\ [][NextDeletes]_vars

\* The remote adapter: projects are added and selected, chats are created, selected
\* and deleted.
NextSelect ==
  \/ NewChat
  \/ \E i \in 1..MaxChats : HandleSelectChat(i)
  \/ \E i \in 1..MaxProjects : SelectProject(i)
  \/ \E n \in ProjectNames : HandleAddProject(n)
  \/ \E i \in 1..MaxChats : HandleDeleteChat(i)
  \/ \E i \in 1..(MaxPending + MaxPendingProjectOps) : DeleteChatOk(i, TRUE)
  \/ \E i \in 1..(MaxPending + MaxPendingProjectOps) : SaveChatOk(i)
  \/ \E i \in 1..(MaxPending + MaxPendingProjectOps) : LoadOk(i)
  \/ \E i \in 1..(MaxPending + MaxPendingProjectOps) : SaveProjectsOk(i)

SpecSelect == InitRemote /\ [][NextSelect]_vars

\* The local adapter: a text is typed and sent, replies are regenerated, New chat
\* aborts, and sendMessage is called again while a request is in flight.
NextGuard ==
  \/ \E inp \in Inputs : OnInputChange(inp.text)
  \/ SendMessage([text |-> input, files |-> attachments])
  \/ Regenerate
  \/ \E regenerate \in BOOLEAN : SendWhileLoading(regenerate)
  \/ \E d \in Deltas : StreamChunk(d)
  \/ StreamDone
  \/ NewChat

SpecGuard == InitLocal /\ [][NextGuard]_vars

\* The remote adapter over browsers: the page is loaded, in the same browser or in
\* another one, and messages are sent.
NextBrowsers ==
  \/ SendMessage([text |-> <<"h", "i">>, files |-> <<>>])
  \/ StreamDone
  \/ NewChat
  \/ Reload
  \/ OtherBrowser
  \/ \E i \in 1..(MaxPending + MaxPendingProjectOps) : SaveChatOk(i)
  \/ \E i \in 1..(MaxPending + MaxPendingProjectOps) : LoadOk(i)
  \/ \E i \in 1..(MaxPending + MaxPendingProjectOps) : SaveProjectsOk(i)

SpecBrowsers == InitRemote /\ [][NextBrowsers]_vars

\* The remote adapter: projects are added, also while the save of an earlier one
\* is outstanding, and the saves come back in any order.
NextAdds ==
  \/ \E n \in ProjectNames : AddProjectWithin(n, MaxProjectsAdded, MaxConcurrentAdds)
  \/ \E i \in 1..MaxProjects : SelectProject(i)
  \/ NewChat
  \/ \E i \in 1..(MaxPending + MaxConcurrentAdds) : SaveChatOk(i)
  \/ \E i \in 1..(MaxPending + MaxConcurrentAdds) : LoadOk(i)
  \/ \E i \in 1..(MaxPending + MaxConcurrentAdds) : SaveProjectsOk(i)
  \/ \E i \in 1..(MaxPending + MaxConcurrentAdds) : SaveProjectsFail(i)

SpecAdds == InitRemote /\ [][NextAdds]_vars

\* ------------------------------------------------------------- the claims
StoredChats == Range(lsChats) \cup Range(libChats)

\* the chats of the saveChatToLibrary calls in flight
PendingChats == {pending[i].chat : i \in {j \in 1..Len(pending) : pending[j].op = "saveChat"}}

Alternates(msgs) == \A i \in 1..(Len(msgs) - 1) : msgs[i].role # msgs[i + 1].role

\* C1: whenever no turn is in flight, the messages of the conversation shown and of
\* every stored chat alternate: no two consecutive messages have the same role.
C1_Alternation ==
  (turn.stage = "idle" /\ ~loading)
    => (Alternates(messages) /\ \A c \in StoredChats : Alternates(c.messages))

\* C2: while the reply of a turn is streaming, no chat in either store and no chat
\* of a write in flight contains the assistant message of that turn.
C2_NoStreamingMessagePersisted ==
  turn.stage = "stream"
    => \A c \in StoredChats \cup PendingChats :
         \A m \in Range(c.messages) : m.id # turn.placeholderId

\* a reply is streaming (a chunk has arrived) into a chat that was already written
\* with the assistant message of an earlier turn
C2_Witness ==
  /\ turn.stage = "stream"
  /\ turn.arrived # <<>>
  /\ \E m \in Range(messages) : m.id = turn.placeholderId /\ m.content # <<>>
  /\ \E c \in StoredChats \cup PendingChats :
       c.id = currentChatId /\ \E m \in Range(c.messages) : m.role = "assistant"

\* the writes of the chat that the persist effect issued in the last step
TurnWrites == SelectSeq(lastWrites, LAMBDA w : w.cause \in {"persist", "title"})

\* C3: the step that ends a turn (completed, failed or aborted) issues exactly one
\* write of the chat, and a step that applies a streamed chunk issues none.
C3_OneWritePerTurn ==
  /\ lastEvent \in {"done", "fail", "abort"} => Len(TurnWrites) = 1
  /\ lastEvent = "chunk" => lastWrites = <<>>

\* C4: no two saveChatToLibrary calls for the same chat id are in flight together.
C4_WritesSerialized ==
  \A i, j \in 1..Len(pending) :
    (i < j /\ pending[i].op = "saveChat" /\ pending[j].op = "saveChat")
      => pending[i].chat.id # pending[j].chat.id

\* C5: the step that aborts a streaming turn leaves loading false and the turn
\* over (a new send is accepted), and the chat the turn belongs to is written with
\* the assistant message holding the content streamed so far.
C5_Cancellation ==
  [][(turn.stage = "stream" /\ lastEvent' = "abort")
       => /\ loading' = FALSE
          /\ turn'.stage = "idle"
          /\ \E c \in (StoredChats \cup PendingChats)' :
               /\ c.id = currentChatId
               /\ \E m \in Range(c.messages) :
                    m.id = turn.placeholderId /\ m.content = turn.fullContent]_vars

\* C6: a step that changes the selected chat or the selected project while a reply
\* is streaming ends the turn (its request is aborted), so that no later chunk of it
\* is applied.
C6_SwitchCancels ==
  [][(turn.stage = "stream"
        /\ (currentChatId' # currentChatId \/ currentProjectId' # currentProjectId))
       => (turn'.stage = "idle" /\ abortRef' = Null)]_vars

ProjectIds == {p.id : p \in Range(lsProjects) \cup Range(libProjects)}

\* C7: when a step removes a project from the stored project list and leaves no
\* remote call in flight, no chat of that project remains in memory or in a store.
C7_DeletionCascade ==
  [][pending' = <<>>
       => \A c \in (StoredChats \cup Range(allChats) \cup Range(chats))' :
            c.projectId \notin (ProjectIds \ ProjectIds')]_vars

\* the messages of a request without the system messages put in front of them
RequestBody(req) == SelectSeq(req, LAMBDA m : m.role # "system")

\* the request message rm carries the chat message m: the same role; the content of
\* an assistant message; the content of a user message first, then what its
\* attached files add, and its images
Carries(rm, m) ==
  /\ rm.role = m.role
  /\ m.role = "assistant" => rm.text = m.content /\ rm.images = <<>>
  /\ m.role = "user" =>
       /\ Slice(rm.text, Len(m.content)) = m.content
       /\ (m.fileTexts = <<>> /\ m.otherFileNames = <<>>) => rm.text = m.content
       /\ \A i \in 1..Len(m.fileTexts) :
            m.fileTexts[i].name \in Range(rm.text)
              /\ \A ch \in Range(m.fileTexts[i].text) : ch \in Range(rm.text)
       /\ rm.images = m.imageDataUrls

\* C8: the request that Regenerate builds for a chat ending in u, a carries every
\* message before a, in order and once each, so that it ends with u (its content
\* and its attachments) and leaves a out.
C8_RegenerateRequest ==
  [][lastEvent' = "regenerate"
       => LET n == Len(messages)
              body == RequestBody(lastRequest')
          IN /\ n >= 2
             /\ messages[n - 1].role = "user"
             /\ Len(body) = n - 1
             /\ \A i \in 1..(n - 1) : Carries(body[i], messages[i])]_vars

\* Regenerate was pressed in a chat with a message before u, a: the request holds
\* that message and ends with the user message
C8_Witness ==
  /\ lastEvent = "regenerate"
  /\ Len(RequestBody(lastRequest)) >= 2
  /\ lastRequest[Len(lastRequest)].role = "user"
  /\ lastRequest[Len(lastRequest)].images # <<>>

\* C9: Regenerate replaces the last two messages by the new assistant message, one
\* message fewer than before (the count before the reply it replaces was added), and
\* the steps that land the reply (a chunk, the end, a failure) keep that count.
C9_RegenerateLength ==
  [][/\ lastEvent' = "regenerate"
          => /\ Len(messages') = Len(messages) - 1
             /\ SubSeq(messages', 1, Len(messages) - 2)
                  = SubSeq(messages, 1, Len(messages) - 2)
             /\ messages'[Len(messages')].role = "assistant"
             /\ messages'[Len(messages')].id = turn'.placeholderId
     /\ (turn.regenerate /\ lastEvent' \in {"chunk", "done", "fail"})
          => Len(messages') = Len(messages)]_vars

\* the reply of a regenerated turn has content
C9_Witness ==
  /\ turn.stage = "stream"
  /\ turn.regenerate
  /\ lastEvent = "chunk"
  /\ \E m \in Range(messages) : m.id = turn.placeholderId /\ m.content # <<>>

\* the title the first user message gives: its first TitleMaxLen characters, or
\* 'New chat' when that is empty
ExpectedTitle(content) ==
  LET t == Trim(Slice(content, TitleMaxLen)) IN IF t = <<>> THEN NEW_CHAT ELSE t

\* C10: a stored chat that holds a user message, with no write of it in flight and
\* no turn in flight, is titled by its first user message (after the first turn and
\* after every later one).
C10_TitleAssignment ==
  \A c \in StoredChats :
    LET f == FindIndex(c.messages, LAMBDA m : m.role = "user")
    IN (f > 0 /\ turn.stage = "idle" /\ \A w \in PendingChats : w.id # c.id)
         => Trim(c.title) = ExpectedTitle(c.messages[f].content)

\* the chat with this id as the adapter in use reads it back, converted to the
\* messages of the component; <<>> when the store does not hold the chat
ReadBack(s, id) ==
  LET all == IF s.useSharePoint THEN getChatsFromLibrary(s) ELSE getAllChats(s)
      i == FindIndex(all, LAMBDA c : c.id = id)
  IN IF i > 0 THEN <<MapSeq(all[i].messages, storedToMessage)>> ELSE <<>>

\* C11: persisting a conversation and reading it back through the same adapter
\* gives the same message sequence (ids, roles, content, attachment data, order):
\* locally, the conversation the end of a turn writes is read back as the messages
\* shown; remotely, the chat file a completed write leaves is read back as the
\* messages that write carried.
C11_RoundTrip ==
  [][/\ (~useSharePoint' /\ lastEvent' \in {"done", "fail"} /\ currentChatId' # Null)
          => ReadBack(Cur, currentChatId)' = <<messages'>>
     /\ lastEvent' = "saved"
          => ReadBack(Cur, lastWrites[1].chats[1])'
               = <<MapSeq(lastWrites'[1].messages, storedToMessage)>>]_vars

\* a conversation with attachments on its user message and none on the reply has
\* been written and is read back, from localStorage and from the library
C11_Witness ==
  /\ lastEvent \in {"done", "saved"}
  /\ \E c \in StoredChats :
       /\ ReadBack(Cur, c.id) # <<>>
       /\ \E i \in 1..Len(c.messages) :
            /\ c.messages[i].role = "user"
            /\ c.messages[i].imageDataUrls # <<>>
            /\ c.messages[i].fileTexts # <<>>
       /\ \E i \in 1..Len(c.messages) :
            /\ c.messages[i].role = "assistant"
            /\ c.messages[i].content # <<>>
            /\ c.messages[i].fileTexts = <<>>

\* the attachments the last batch added: the new tail of the attachments
Added(before, after) == SubSeq(after, Len(before) + 1, Len(after))

\* the number of characters of extracted text the attachments of list carry
RECURSIVE TextChars(_)
TextChars(list) ==
  IF list = <<>> THEN 0
  ELSE (IF Head(list).kind = "text" THEN Len(Head(list).data) ELSE 0)
         + TextChars(Tail(list))

EndsTruncated(text) ==
  Len(text) >= Len(TRUNCATED)
    /\ SubSeq(text, Len(text) - Len(TRUNCATED) + 1, Len(text)) = TRUNCATED

\* C12: the extracted text of the attachments a batch adds is at most
\* MAX_TOTAL_TEXT_CHARS characters long in all, and no file after the one that is
\* cut (its text ends with the marker) gets extracted text.
C12_Budget ==
  [][lastEvent' = "files"
       => LET list == Added(attachments, attachments')
          IN /\ TextChars(list) <= MAX_TOTAL_TEXT_CHARS
             /\ \A i \in 1..Len(list) :
                  (list[i].kind = "text" /\ EndsTruncated(list[i].data))
                    => \A j \in (i + 1)..Len(list) : list[j].kind # "text"]_vars

\* a and b are the same letter, in either case
SameLetter(a, b) ==
  a = b \/ \E k \in 1..Len(UPPER) : {a, b} = {UPPER[k], LOWER[k]}

\* the text holds one of the keywords, in either case
HasKeyword(text) ==
  \E k \in 1..Len(complexKeywords) :
    \E i \in 0..(Len(text) - Len(complexKeywords[k])) :
      \A j \in 1..Len(complexKeywords[k]) : SameLetter(text[i + j], complexKeywords[k][j])

\* C13: the hint for the text typed and the attachments present is complex exactly
\* when the trimmed text is longer than 400 characters, or there is an attachment,
\* or the text holds one of the keywords; otherwise it is simple.
C13_ModelHint ==
  /\ suggestModelFromContent(input, attachments # <<>>) \in {"simple", "complex"}
  /\ suggestModelFromContent(input, attachments # <<>>) = "complex"
       <=> (Len(Trim(input)) > 400 \/ attachments # <<>> \/ HasKeyword(input))

\* the content of a failed reply: 'Error: ' and the message of the error
IsErrorContent(content) ==
  Len(content) > Len(ERROR_PREFIX) /\ SubSeq(content, 1, Len(ERROR_PREFIX)) = ERROR_PREFIX

\* C14: when the request of a turn fails, the reply of the turn gets a content that
\* starts with 'Error: ', the error banner is set, the chat of the turn is written
\* (to localStorage, or by a saveChatToLibrary call) with that reply, loading is
\* false again and the turn is over.
C14_TransportFailure ==
  [][lastEvent' = "fail"
       => /\ \E m \in Range(messages') :
               m.id = turn.placeholderId /\ m.role = "assistant" /\ IsErrorContent(m.content)
          /\ error' # "null"
          /\ \E c \in (StoredChats \cup PendingChats)' :
               /\ c.id = turn.chatId
               /\ \E m \in Range(c.messages) :
                    m.id = turn.placeholderId /\ IsErrorContent(m.content)
          /\ ~loading'
          /\ turn'.stage = "idle" /\ abortRef' = Null]_vars

\* C15: a load whose read of the project file or of the chat files failed shows
\* an error, and does not take the project list to be empty (it saves no default
\* project).
C15_ReadFailureSurfaces ==
  [][lastEvent' = "readfail"
       => /\ error' # "null"
          /\ \A j \in 1..Len(pending') : pending'[j].cb # "loadDefault"]_vars

\* C16: when a write of a chat fails (the creation of the chat, the write at the
\* end of a turn, the title, a rename), the error banner is set and the messages
\* shown are left as they were.
C16_PersistenceErrorsShown ==
  [][lastEvent' = "savefail" => (error' # "null" /\ messages' = messages)]_vars

\* the number of system messages of the request that carry this instruction
Injected(instruction) ==
  Cardinality({i \in 1..Len(lastRequest) :
                 lastRequest[i].role = "system" /\ lastRequest[i].text = instruction})

\* the number of system messages a condition on the conversation calls for
Wanted(condition) == IF condition THEN 1 ELSE 0

\* C17: the request of a send carries exactly one system message about file text
\* when a user message of the conversation has extracted file text and none when
\* none has, likewise one about files whose text was not extracted and one about
\* images, each whatever the other two conditions are; and every system message
\* comes before every message of the conversation.
C17_InstructionInjection ==
  lastEvent = "send"
    => /\ Injected(SYSTEM_FILES)
            = Wanted(\E m \in Range(messages) : m.role = "user" /\ m.fileTexts # <<>>)
       /\ Injected(SYSTEM_UNSUPPORTED)
            = Wanted(\E m \in Range(messages) : m.role = "user" /\ m.otherFileNames # <<>>)
       /\ Injected(SYSTEM_IMAGES)
            = Wanted(\E m \in Range(messages) : m.role = "user" /\ m.imageDataUrls # <<>>)
       /\ \A i \in 1..Len(lastRequest) : \A j \in (i + 1)..Len(lastRequest) :
            lastRequest[j].role = "system" => lastRequest[i].role = "system"

\* C18: when the delete of a chat has completed without an error, no store holds
\* the chat.
C18_ChatDeletion ==
  [][lastEvent' = "deleted"
       => \A w \in Range(lastWrites') :
            w.op = "deleteChat" => \A c \in StoredChats' : c.id # w.chats[1]]_vars

\* what a fresh load over the stores of s gives: the component mounted again and,
\* with the remote adapter, the load effect done (when the library has no project
\* the load saves a default project first, and the mounted state stands for it)
FreshLoad(s) ==
  With(Mounted(s), LAMBDA m :
    IF ~s.useSharePoint \/ getProjectsFromLibrary(s) = <<>> THEN m
    ELSE LoadThen([m EXCEPT !.pending = <<>>], getProjectsFromLibrary(s),
                  getChatsFromLibrary(s)))

\* C19: when no turn is in flight, no remote call is outstanding and no error is
\* shown, the projects, the chat list and the messages shown are those a fresh
\* load from the store gives.
C19_CacheOfStore ==
  (turn.stage = "idle" /\ ~loading /\ ~storageLoading /\ pending = <<>> /\ error = "null")
    => \E f \in {FreshLoad(Cur)} :
         /\ projects = f.projects
         /\ chats = f.chats
         /\ messages = f.messages

\* C20: since the page was loaded, the remote adapter has sent at most one
\* current-user lookup, and every call made once the id is cached sends none.
C20_OneUserLookup ==
  /\ userLookups <= 1
  /\ cachedUserId # Null => cachedUserId = USER_ID

\* The lines of a stream that are complete: each ends with a line break that has
\* arrived.
Ends(text) == {i \in 1..Len(text) : text[i] = NL}

StartOf(text, e) == 1 + SetMax({i \in Ends(text) : i < e})

\* The delta a complete line carries, empty when it carries none.
Fragment(line) ==
  IF Len(line) = 2 /\ line[1] = DATA /\ line[2] \in {"{x}", "{y}"}
    THEN <<IF line[2] = "{x}" THEN "x" ELSE "y">>
    ELSE <<>>

RECURSIVE Received(_, _)
\* The deltas of the complete lines among the first n tokens, in arrival order.
Received(text, n) ==
  IF n = 0 THEN <<>>
  ELSE Received(text, n - 1)
         \o (IF n \in Ends(text) THEN Fragment(SubSeq(text, StartOf(text, n), n - 1))
             ELSE <<>>)

\* C21: at every point of a turn the pending assistant message is in the
\* conversation and its content is the concatenation, in arrival order, of the
\* deltas of every complete data line that has arrived, none skipped, duplicated
\* or reordered.
C21_ChunksInArrivalOrder ==
  turn.stage = "stream" =>
    /\ \E m \in Range(messages) : m.id = turn.placeholderId
    /\ \A m \in Range(messages) :
         m.id = turn.placeholderId =>
           m.content = Received(turn.arrived, Len(turn.arrived))

\* two deltas have been applied, y before x: every read that carried them cut a line
C21_Witness ==
  /\ turn.stage = "stream"
  /\ turn.fullContent = <<"y", "x">>
  /\ \E m \in Range(messages) : m.id = turn.placeholderId /\ m.content = <<"y", "x">>

\* The chats of a project as the store holds them, latest update first.
ListedFor(store, projectId) ==
  Written(SortByUpdatedDesc(SelectSeq(store, LAMBDA c : c.projectId = projectId)))

\* C22: with the storage loaded, nothing in flight and no error shown, the chats
\* listed for the current project are exactly the stored chats of that project,
\* ordered by updatedAt descending, in both adapters.
C22_ProjectListing ==
  (/\ pending = <<>>
   /\ ~loading
   /\ ~storageLoading
   /\ error = "null"
   /\ currentProjectId # Null)
    => Written(chats) = ListedFor(IF useSharePoint THEN libChats ELSE lsChats,
                                  currentProjectId)

\* The records of a store other than the chat id, without their timestamps.
Others(store, id) ==
  MapSeq(SelectSeq(store, LAMBDA c : c.id # id),
         LAMBDA c : [id |-> c.id, projectId |-> c.projectId, title |-> c.title,
                     messages |-> c.messages])

\* The store after is the store before with the chat id upserted: one record
\* with that id, one record more only when the id is new, the others as they were.
UpsertOf(before, after, id) ==
  /\ Cardinality({i \in 1..Len(after) : after[i].id = id}) = 1
  /\ Len(after) = Len(before) + (IF id \in ChatIdsOf(before) THEN 0 ELSE 1)
  /\ Others(after, id) = Others(before, id)

\* C23: a save of a chat replaces exactly the record with its id or adds exactly
\* one record when the id is new, leaves every other chat unchanged, and saving the
\* same chat again leaves the store as it is, in the local store (the persist of
\* the turn that ended) and in the library (a chat file written).
C23_SaveChatUpsert ==
  [][/\ (/\ ~useSharePoint
         /\ lastEvent' \in {"done", "fail"}
         /\ \E w \in Range(lastWrites') : w.cause = "persist")
          => /\ UpsertOf(lsChats, lsChats', currentChatId)
             /\ \A c \in Range(lsChats') :
                  c.id = currentChatId => Upserted(lsChats', c) = lsChats'
     /\ lastEvent' = "saved"
          => /\ UpsertOf(libChats, libChats', lastWrites'[1].chats[1])
             /\ \A c \in Range(libChats') :
                  c.id = lastWrites'[1].chats[1] => PutChatFile(libChats', c) = libChats'
    ]_vars

\* the turn of the second chat was persisted over its record, in either store
C23_Witness ==
  \/ /\ ~useSharePoint
     /\ lastEvent = "done"
     /\ \E w \in Range(lastWrites) : w.cause = "persist"
     /\ Len(lsChats) = 2
     /\ \E c \in Range(lsChats) : c.id = currentChatId /\ Len(c.messages) = 2
  \/ /\ lastEvent = "saved"
     /\ lastWrites[1].cause = "persist"
     /\ Len(libChats) = 2
     /\ \E c \in Range(libChats) : c.id = lastWrites[1].chats[1] /\ Len(c.messages) = 2

\* C24: a send or a regenerate with an empty or blank API key sets the error,
\* builds no request and leaves the messages, the text box, the attachments and
\* loading as they were; no turn starts and nothing is written.
C24_MissingKeyBlocks ==
  [][/\ (Trim(apiKey) = <<>> /\ ~loading)
          => /\ ~loading'
             /\ lastRequest' = <<>>
             /\ messages' = messages
             /\ turn' = turn
     /\ lastEvent' = "nokey"
          => /\ Trim(apiKey) = <<>>
             /\ error' = "OpenAI API key is not set"
             /\ lastRequest' = <<>>
             /\ messages' = messages
             /\ input' = input
             /\ attachments' = attachments
             /\ loading' = loading
             /\ lastWrites' = <<>>
             /\ lsChats' = lsChats]_vars

\* a regenerate was blocked: the key is blank, the conversation has a turn, a text
\* is typed and files are attached
C24_Witness ==
  /\ lastEvent = "nokey"
  /\ Trim(apiKey) = <<>>
  /\ Len(messages) >= 2
  /\ input # <<>>
  /\ attachments # <<>>
  /\ ~loading

\* A complete data line whose payload is not one JSON event.
Malformed(line) ==
  /\ line # <<>>
  /\ Head(line) = DATA
  /\ ~(Len(line) = 2 /\ line[2] \in {"{x}", "{y}", "{}"})

LineEndingAt(text, e) == SubSeq(text, StartOf(text, e), e - 1)

RECURSIVE ReceivedAfter(_, _, _)
\* The deltas of the lines that end after the first from tokens, among the first n.
ReceivedAfter(text, from, n) ==
  IF n <= from THEN <<>>
  ELSE ReceivedAfter(text, from, n - 1)
         \o (IF n \in Ends(text) THEN Fragment(LineEndingAt(text, n)) ELSE <<>>)

\* C25: a read of the stream never ends the turn or raises an error; a read that
\* completes only data lines whose payload is not valid JSON changes neither the
\* messages nor the content so far, and every read appends the deltas of the
\* well-formed lines it completes to the assistant message, whatever malformed
\* lines came before.
C25_MalformedChunkSkipped ==
  [][lastEvent' = "chunk"
       => LET before == turn.arrived
              after == turn'.arrived
              done == {e \in Ends(after) : e > Len(before)}
          IN /\ turn'.stage = "stream"
             /\ loading'
             /\ error' = error
             /\ (\A e \in done : Malformed(LineEndingAt(after, e)))
                  => /\ messages' = messages
                     /\ turn'.fullContent = turn.fullContent
             /\ \A k \in 1..Len(messages) :
                  messages[k].id = turn.placeholderId
                    => messages'[k].content
                         = messages[k].content \o ReceivedAfter(after, Len(before), Len(after))
    ]_vars

\* a delta, then a line with a broken payload, then a delta: both are in the message
C25_Witness ==
  /\ turn.stage = "stream"
  /\ \E e \in Ends(turn.arrived) :
       /\ Malformed(LineEndingAt(turn.arrived, e))
       /\ ReceivedAfter(turn.arrived, 0, e) = <<"x">>
       /\ ReceivedAfter(turn.arrived, e, Len(turn.arrived)) = <<"y">>
  /\ \E m \in Range(messages) : m.id = turn.placeholderId /\ m.content = <<"x", "y">>

\* the attachments a message carries
Carried(m) == Len(m.imageDataUrls) + Len(m.fileTexts) + Len(m.otherFileNames)

\* C26: the pending attachments are never more than MAX_FILES_PER_MESSAGE, whatever
\* files are picked and removed, and no message carries more attachments than that.
C26_AttachmentLimit ==
  /\ Len(attachments) <= MAX_FILES_PER_MESSAGE
  /\ \A m \in Range(messages) : Carried(m) <= MAX_FILES_PER_MESSAGE

\* a batch of more files than the limit was added to an attachment and cut at
\* the limit, and the message sent carries that many
C26_Witness ==
  /\ messages # <<>>
  /\ Carried(messages[1]) = MAX_FILES_PER_MESSAGE
  /\ Len(messages[1].fileTexts) + Len(messages[1].otherFileNames) > 0

\* C27: a send in flight always comes back to idle (loading false, no controller,
\* no turn) when its response completes, fails or is aborted; a failure ends in
\* the error banner and the component idle, not in a fault; another send is then
\* accepted.
C27_ReturnsToIdle ==
  /\ (loading /\ turn.stage = "stream")
       ~> (~loading /\ turn = IdleTurn /\ abortRef = Null)
  /\ [](lastEvent \in {"done", "fail", "abort"}
          => (~loading /\ turn = IdleTurn /\ abortRef = Null))
  /\ [](lastEvent = "fail" => error \in ErrMsgs)
  /\ []((loading /\ lastEvent \in {"send", "regenerate"}) => turn.stage = "stream")

\* a second send was accepted after the first turn ended, and its request failed
C27_Witness ==
  /\ lastEvent = "fail"
  /\ ~loading
  /\ turn = IdleTurn
  /\ error \in ErrMsgs
  /\ Len(messages) = 4

\* the file is larger than the ceiling of its kind
Oversize(file) ==
  file.size > (IF file.type = "image" THEN MAX_IMAGE_SIZE_MB ELSE MAX_FILE_SIZE_MB)
                 * 1024 * 1024

\* The attachments added are the files of the batch that are not oversize, in
\* order, as far as the limit leaves room; the ones whose extraction throws are
\* marked and carry no text, the others are not marked.
KeptOf(batch, before, added) ==
  LET kept == SelectSeq(batch, LAMBDA f : ~Oversize(f))
  IN /\ Len(added) = Min(Len(kept), MAX_FILES_PER_MESSAGE - Len(before))
     /\ \A i \in 1..Len(added) :
          /\ added[i].name = kept[i].name
          /\ added[i].extractionError = kept[i].throws
          /\ added[i].extractionError => (added[i].kind = "other" /\ added[i].data = <<>>)

\* C28: a file whose extraction throws stays in the attachment list, marked and
\* without text, and an oversize file is never in it; a send with marked attachments
\* goes out, and the message names each of them among the files without extracted
\* text and has no text for it.
C28_ExtractionErrorsNonFatal ==
  [][/\ lastEvent' = "files"
          => \E batch \in Batches :
               KeptOf(batch, attachments, Added(attachments, attachments'))
     /\ (/\ lastEvent' = "send"
         /\ \E a \in Range(attachments) : a.extractionError)
          => /\ loading'
             /\ turn'.stage = "stream"
             /\ \A a \in Range(attachments) :
                  a.extractionError
                    => /\ \E m \in Range(messages') :
                            /\ m.role = "user"
                            /\ \E k \in 1..Len(m.otherFileNames) : m.otherFileNames[k] = a.name
                       /\ \A m \in Range(messages') :
                            \A k \in 1..Len(m.fileTexts) : m.fileTexts[k].name # a.name
    ]_vars

\* the only attachment was a file whose extraction failed, and it was sent
C28_Witness ==
  /\ lastEvent = "send"
  /\ loading
  /\ Len(messages) = 2
  /\ messages[1].otherFileNames = <<"bad.pdf">>
  /\ messages[1].fileTexts = <<>>
  /\ messages[1].imageDataUrls = <<>>

\* C29: when a message is sent, the extracted text of the pending attachments is at
\* most MAX_TOTAL_TEXT_CHARS characters long in all, whatever batches added them.
C29_SharedBudget ==
  [][lastEvent' = "send" => TextChars(attachments) <= MAX_TOTAL_TEXT_CHARS]_vars

\* C30: a load starts the write of a default project only when the library holds no
\* project, and a project list that is persisted and not empty is never replaced by
\* a load, whether the reads of the load succeed or fail (over visits the loads are
\* the only writers of the project list).
C30_DefaultOnlyOnFirstRun ==
  [][/\ (\E j \in 1..Len(pending') :
           pending'[j].cb = "loadDefault" /\ pending'[j] \notin Range(pending))
          => libProjects = <<>>
     /\ libProjects # <<>> => libProjects' = libProjects]_vars

\* the chats, stored or in a write in flight, that hold a message with this id
HoldersOf(id) ==
  {c.id : c \in {d \in StoredChats \cup PendingChats :
                   \E m \in Range(d.messages) : m.id = id}}

\* C31: a message is persisted only under the chat that was current when it was
\* appended: the reply of the turn in flight is never written under another chat
\* than the chat of the turn, and no message (ids are never given twice) is
\* stored under two chats.
C31_NoCrossChatContamination ==
  /\ [][turn.stage = "stream" => HoldersOf(turn.placeholderId)' \subseteq {turn.chatId}]_vars
  /\ [](\A c1, c2 \in StoredChats :
          c1.id # c2.id
            => {m.id : m \in Range(c1.messages)} \cap {m.id : m \in Range(c2.messages)} = {})

\* the ids of the reply of the turn in flight and of the message before it, as
\* far as msgs holds them
TurnMsgIds(msgs) ==
  {msgs[i].id : i \in {j \in 1..Len(msgs) :
                         \/ msgs[j].id = turn.placeholderId
                         \/ j < Len(msgs) /\ msgs[j + 1].id = turn.placeholderId}}

\* C32: while a turn is in flight and the current chat stays the same, the user
\* message and the reply of the turn stay in the messages shown: no step (a write
\* that completes, a rename, a delete) replaces them by a stored snapshot.
C32_NoReloadDuringTurn ==
  [][(/\ turn.stage = "stream"
      /\ turn'.stage = "stream"
      /\ turn'.placeholderId = turn.placeholderId
      /\ currentChatId' = currentChatId)
       => TurnMsgIds(messages) \subseteq {m.id : m \in Range(messages')}]_vars

\* C33: a chat whose delete has completed is neither in the chat list in memory nor
\* in the stores, whatever write of it completes afterwards.
C33_DeletedStaysDeleted ==
  \A id \in deletedChats :
    id \notin ChatIdsOf(allChats) \cup ChatIdsOf(libChats) \cup ChatIdsOf(lsChats)

\* no two records of the list have the same id
UniqueIds(list) == \A i, j \in 1..Len(list) : list[i].id = list[j].id => i = j

\* C34: no two chats of the chat list in memory have the same id, and no two of
\* the chats in localStorage or of the chat files of the library.
C34_ChatIdsUnique ==
  UniqueIds(allChats) /\ UniqueIds(lsChats) /\ UniqueIds(libChats)

\* C35: the chat that is selected, wherever a record of it is held (the lists in
\* memory, the stores, a write in flight), is a chat of the project that is selected.
C35_SelectionConsistent ==
  currentChatId # Null
    => \A c \in StoredChats \cup PendingChats \cup Range(allChats) \cup Range(chats) :
         c.id = currentChatId => c.projectId = currentProjectId

\* C36: while the stream of a send is being read, loading is true and abortRef
\* holds the controller of that send, also when an earlier send was aborted before
\* it; and no other send starts before it is over.
C36_OneLiveRequest ==
  /\ [](turn.stage = "stream" => (loading /\ abortRef = turn.placeholderId))
  /\ [][turn.stage = "stream" => lastEvent' \notin {"send", "regenerate"}]_vars
  /\ [][(turn.stage = "stream" /\ turn'.stage = "stream")
          => turn'.placeholderId = turn.placeholderId]_vars

\* a send with a text in the text box was called during a turn and the turn goes on
C36_Witness ==
  /\ lastEvent = "invoked"
  /\ input # <<>>
  /\ turn.stage = "stream"
  /\ loading

\* the initial load is over and the store holds a project
LoadedWithProject ==
  /\ ~storageLoading
  /\ \A i \in 1..Len(pending) : pending[i].op # "load" /\ pending[i].cb # "loadDefault"
  /\ (IF useSharePoint THEN libProjects ELSE lsProjects) # <<>>

\* C37: once the initial load is over and the store holds a project, the project
\* that is selected is a project of the project list, and a send has a chat to be
\* stored under (persistCurrentChat writes it under the selected project).
C37_TurnsHaveAProject ==
  /\ [](LoadedWithProject => \E p \in Range(projects) : p.id = currentProjectId)
  /\ [][(LoadedWithProject /\ lastEvent' = "send") => turn'.chatId # Null]_vars

ProjectIdsOf(list) == {p.id : p \in Range(list)}

\* C38: where projects are only added, once every save has completed no project
\* that was in the persisted project list or in the project list in memory is
\* missing from it.
C38_NoLostProjectUpdate ==
  [][pending' = <<>>
       => /\ ProjectIdsOf(libProjects) \subseteq ProjectIdsOf(libProjects')
          /\ ProjectIdsOf(projects) \subseteq ProjectIdsOf(projects')]_vars

WholeRead(stream) ==
  Read([Cur EXCEPT !.turn.buffer = <<>>, !.turn.fullContent = <<>>,
                   !.turn.arrived = <<>>], stream).turn

\* the content the reply gets when the stream ends (lines 970-973)
FinalContent(fullContent) ==
  IF Trim(fullContent) = <<>> THEN NO_RESPONSE ELSE fullContent

\* C40: however the reads cut the response, the read loop holds what it holds when
\* the response comes in one read, the content and the unfinished line; and when
\* the stream ends the reply is the deltas of every complete data line, each once.
C40_ChunkBoundaryIndependence ==
  /\ [](turn.stage = "stream"
          => /\ turn.fullContent = WholeRead(turn.arrived).fullContent
             /\ turn.buffer = WholeRead(turn.arrived).buffer)
  /\ [][lastEvent' = "done"
          => \A m \in Range(messages') :
               m.id = turn.placeholderId
                 => /\ m.content = FinalContent(WholeRead(turn.arrived).fullContent)
                    /\ m.content = FinalContent(Received(turn.arrived, Len(turn.arrived)))
       ]_vars

\* a response whose lines were cut by the reads has ended: y, then x
C40_Witness ==
  /\ lastEvent = "done"
  /\ \E m \in Range(messages) : m.role = "assistant" /\ m.content = <<"y", "x">>

====
